---- MODULE Spec2Model ----
(***************************************************************************)
(* Model of mule's periodic scheduler (package scheduler), the resource   *)
(* registry state.State.Repositories guarded by State.Mu, and the HTTP    *)
(* handlers of package handlers that operate on them.                     *)
(*                                                                         *)
(* Every goroutine is a process with a program counter.  A handler is cut *)
(* into steps at its lock operations, its accesses to shared state and    *)
(* its external calls, so that every interleaving the Go scheduler can    *)
(* produce between those points is a behaviour of the model.              *)
(*                                                                         *)
(* Two specifications are given:                                           *)
(*   SpecSched  callers invoke AddTask / UpdateTask / RemoveTask directly  *)
(*              with arbitrary arguments while the cron loop dispatches;  *)
(*   Spec       request workers run the HTTP handlers, which reach the    *)
(*              scheduler through HandleAddRepository and                  *)
(*              HandleDeleteRepository, and the cron loop dispatches the  *)
(*              sync actions HandleAddRepository registered.               *)
(***************************************************************************)
EXTENDS Integers, Sequences, FiniteSets, TLC

\* ------------------------------------------------------------------ bounds
MaxJobs    == 1      \* action invocations that may be in flight at once
MaxEntryID == 2      \* cap on cron's entry-id counter
MaxRepos   == 1      \* cap on repository objects ever allocated
MaxClock   == 3      \* last instant of the modelled run of the dispatch loop
MaxInFlight == 2     \* invocations of one entry that may overlap

\* Goroutines: two callers / request workers, and the goroutines the cron
\* loop starts for due entries.
Workers == {101, 102}
Jobs    == 1..MaxJobs
Procs   == Workers \cup Jobs
NoProc  == 0

\* Keys of the scheduler and of the registry: canonical repository paths.
Paths   == {"/r1", "/r2"}
NoPath  == ""
\* Paths that HTTP requests name.
ReqPaths == {"/r1"}
\* Repository objects: those HandleAddRepository allocates, and one more so
\* that a registry loaded at start can hold a repository under each path.
RepoIds == 1..(MaxRepos + 1)
\* Opaque callables handed to AddTask by a direct caller.
Actions == {1, 2}
\* Values of Settings.GitHubToken: not configured, or a token.
NoToken == ""
SettingsValues == {NoToken, "token"}
\* Values of req.Provider.
Providers == {"github"}
\* req.ResourceType of HandleAddLocalComment: "issue", "pr", or a request
\* that names neither (the empty string when the field is absent).
ResourceTypes == {"issue", "pr", ""}

\* The handlers of local.go that, like HandleCreateLocalIssue, call one
\* mutating operation of repo.Remote.
LocalMutators ==
    {"HandleAddLocalComment", "HandleAddLocalReaction", "HandleAddLocalLabel",
     "HandleUpdateLocalIssueState", "HandleUpdateLocalPullRequestState",
     "HandleDeleteLocalIssue", "HandleDeleteLocalPullRequest",
     "HandleUpdateLocalIssue"}

\* Schedule strings, as their whitespace-separated fields.
EveryMinute == <<"*", "*", "*", "*", "*">>
Midnight    == <<"0", "0", "*", "*", "*">>
Malformed   == <<"*", "*", "*">>
Schedules   == {EveryMinute, Midnight, Malformed}
EveryTwo       == <<"*/2", "*", "*", "*", "*">>
StepSixtyOne   == <<"*/61", "*", "*", "*", "*">>
SixFields      == <<"*/30", "*", "*", "*", "*", "*">>
FebThirtyFirst == <<"0", "0", "31", "2", "*">>
\* Schedule strings handed to AddTask while the loop is observed in time.
CronSchedules == {EveryMinute, EveryTwo, StepSixtyOne, SixFields, FebThirtyFirst}

VARIABLES
    \* scheduler.Scheduler
    tasks,        \* s.tasks : key -> Task (NoTask when the key is absent)
    schedMu,      \* holder of s.mu, NoProc when free
    cronEntries,  \* entries of s.cron
    cronNextID,   \* last entry id handed out by s.cron
    \* state.State
    Repositories, \* State.Repositories : path -> repository object, 0 absent
    StateMuW,     \* writer holding State.Mu, NoProc when none
    StateMuR,     \* readers holding State.Mu
    Settings,     \* State.Settings, as its GitHubToken
    \* repository objects
    repoObjs,     \* object id -> fields of the *repository.Repository
    nextRepo,     \* number of objects allocated so far
    \* goroutines
    \* the cron dispatch loop
    cronRunning,  \* c.running
    cronNext,     \* entry id -> entry.Next, ZeroTime when not computed
    timerAt,      \* instant the loop's timer is set for
    inFlight,     \* entry id -> invocations of its wrapped func still running
    crashed,      \* the process died of an unrecovered panic
    clock,        \* the current instant
    pc,           \* where each goroutine stands
    local         \* its local variables

schedVars == <<tasks, schedMu, cronEntries, cronNextID>>
stateVars == <<Repositories, StateMuW, StateMuR>>
heapVars  == <<repoObjs, nextRepo>>
loopVars  == <<cronRunning, cronNext, timerAt, inFlight, crashed, clock>>
vars == <<tasks, schedMu, cronEntries, cronNextID, Repositories, StateMuW,
          StateMuR, Settings, repoObjs, nextRepo, cronRunning, cronNext, timerAt,
          inFlight, crashed, clock, pc, local>>

NoTask == [ID |-> 0, Schedule |-> <<>>, Action |-> 0]
NoRepo == [Path |-> NoPath, Provider |-> "", Remote |-> "", Mu |-> NoProc]

\* Locals of a goroutine that is not running anything.
\* Conversation IDs of log entries, and the conversations map of HandleLogs
\* (NoConv when the ID is absent).
LogIDs == {"c1", "c2"}
NoConv == [StartTime |-> 0, Messages |-> <<>>, MessageCount |-> 0]

\* The locals of HandleLogs in a goroutine that is not serving it: none.
NoLogs == <<>>

NoLocals ==
    [handler |-> "", path |-> NoPath, schedule |-> <<>>, action |-> 0,
     provider |-> "", repo |-> 0, err |-> FALSE, existingTask |-> NoTask,
     newSettings |-> NoToken, resourceType |-> "", calls |-> <<>>,
     logs |-> NoLogs, status |-> ""]

\* A goroutine moves on, which it only does while the process is alive.
Goto(p, l) == ~crashed /\ pc' = [pc EXCEPT ![p] = l]

\* The handler has written its response and returned: of its locals only the
\* status code is kept.
Respond(p, code) ==
    /\ Goto(p, "done")
    /\ local' = [local EXCEPT ![p] = [NoLocals EXCEPT !.status = code]]

\* ------------------------------------------------------------ cron (s.cron)
\* Domains of the five fields of cron's standard parser: minute, hour,
\* day of month, month, day of week.
CronBounds ==
    << [min |-> 0, max |-> 59], [min |-> 0, max |-> 23], [min |-> 1, max |-> 31],
       [min |-> 1, max |-> 12], [min |-> 0, max |-> 6] >>

\* The pieces of one field once it is split on "/" and "-" and its numbers are
\* converted: "*" or a single number lo, and an optional step.
Lex(tok) ==
    CASE tok = "*"    -> [ok |-> TRUE, star |-> TRUE,  lo |-> 0,  hasStep |-> FALSE, step |-> 1]
      [] tok = "0"    -> [ok |-> TRUE, star |-> FALSE, lo |-> 0,  hasStep |-> FALSE, step |-> 1]
      [] tok = "2"    -> [ok |-> TRUE, star |-> FALSE, lo |-> 2,  hasStep |-> FALSE, step |-> 1]
      [] tok = "31"   -> [ok |-> TRUE, star |-> FALSE, lo |-> 31, hasStep |-> FALSE, step |-> 1]
      [] tok = "*/2"  -> [ok |-> TRUE, star |-> TRUE,  lo |-> 0,  hasStep |-> TRUE,  step |-> 2]
      [] tok = "*/30" -> [ok |-> TRUE, star |-> TRUE,  lo |-> 0,  hasStep |-> TRUE,  step |-> 30]
      [] tok = "*/61" -> [ok |-> TRUE, star |-> TRUE,  lo |-> 0,  hasStep |-> TRUE,  step |-> 61]
      [] OTHER        -> [ok |-> FALSE, star |-> FALSE, lo |-> 0, hasStep |-> FALSE, step |-> 1]

\* cron's getRange: start and end of the range a field names, checked against
\* the field's domain; the step is only required to be positive.  A field
\* keeps its star mark unless it has a step above one.
getRange(tok, r) ==
    LET f     == Lex(tok)
        start == IF f.star THEN r.min ELSE f.lo
        end   == IF f.star \/ f.hasStep THEN r.max ELSE f.lo
    IN  IF ~f.ok \/ start < r.min \/ end > r.max \/ start > end \/ f.step = 0
          THEN [ok |-> FALSE, bits |-> {}, star |-> FALSE]
          ELSE [ok |-> TRUE,
                bits |-> {v \in start..end : (v - start) % f.step = 0},
                star |-> f.star /\ f.step <= 1]

\* The standard parser behind cron.New(): exactly five fields, each accepted
\* by getRange for its domain.
ParseStandard(s) ==
    /\ Len(s) = 5
    /\ \A i \in 1..5 : getRange(s[i], CronBounds[i]).ok

\* The SpecSchedule of an accepted schedule string.
ParsedSchedule(s) == [i \in 1..5 |-> getRange(s[i], CronBounds[i])]

\* Instants are minutes; instant 0 is 00:00 on the first of January, a
\* Thursday.  The zero instant stands for cron's zero time.Time, and Later for
\* any instant after the first hour.
ZeroTime == 0
Later    == 60
EpochWeekday == 4

DaysIn(m) == IF m = 2 THEN 29 ELSE IF m \in {4, 6, 9, 11} THEN 30 ELSE 31

\* SpecSchedule.dayMatches: both day fields must match when either is a star,
\* one of them otherwise.
dayMatches(sp, day, wd) ==
    IF sp[3].star \/ sp[5].star
      THEN day \in sp[3].bits /\ wd \in sp[5].bits
      ELSE day \in sp[3].bits \/ wd \in sp[5].bits

\* Some day within the five years SpecSchedule.Next searches matches.
Satisfiable(sp) ==
    \E mo \in sp[4].bits : \E d \in 1..DaysIn(mo) : \E wd \in 0..6 :
        dayMatches(sp, d, wd)

\* SpecSchedule.Next(t): the first matching instant strictly after t, and
\* the zero time when the search finds none within five years.
NextFire(s, t) ==
    LET sp    == ParsedSchedule(s)
        today == 1 \in sp[4].bits /\ dayMatches(sp, 1, EpochWeekday) /\ 0 \in sp[2].bits
        cand  == {u \in (t + 1)..59 : u \in sp[1].bits}
    IN  IF ~Satisfiable(sp) THEN ZeroTime
        ELSE IF today /\ cand # {}
               THEN CHOOSE u \in cand : \A v \in cand : u <= v
               ELSE Later

\* Next of every schedule the parser accepts, at every instant of the run.
NextTable ==
    [s \in {x \in Schedules \cup CronSchedules : ParseStandard(x)} |->
        [t \in 0..MaxClock |-> NextFire(s, t)]]

ScheduleNext(s, t) == NextTable[s][t]

\* A Remove that leaves the entry in place.
CronRemoveKept(entries, id) == entries

\* s.cron.Remove(id): the entry with that id is gone when Remove returns.
CronRemove(entries, id) == {e \in entries : e.ID # id}

\* s.cron.AddFunc(schedule, func() { ...; action() }): a new entry under the
\* next entry id, wrapping the key and the action.
CronAddFunc(entries, id, key, sched, act) ==
    entries \cup {[ID |-> id, Schedule |-> sched, Key |-> key, Action |-> act]}

EntriesOf(k) == {e \in cronEntries : e.Key = k}

\* The instant of the timer the loop arms at the top of each round: the
\* earliest computed Next of an entry, far in the future when there is none.
TimerFor(entries, next) ==
    LET due == {next[e.ID] : e \in entries} \ {ZeroTime}
    IN  IF due = {} THEN Later ELSE CHOOSE u \in due : \A v \in due : u <= v

\* A loop that is not woken by a mutation keeps its timer.
CronWakeMissed(entries, next) == timerAt

\* A running loop receives the mutation on its add / remove channel, stops
\* its timer and arms a new one; a loop that is not running has no timer.
CronWake(entries, next) ==
    IF cronRunning THEN TimerFor(entries, next) ELSE timerAt

\* Cron.Schedule: a running loop computes the new entry's Next from the
\* current instant; otherwise the entry is appended and Next is left for run().
CronScheduleNext(next, id, sched) ==
    IF cronRunning THEN [next EXCEPT ![id] = ScheduleNext(sched, clock)] ELSE next

\* --------------------------------------------------------- Scheduler.AddTask
\* A Lock that does not wait for the holder.
SchedLockNoWait(p) == schedMu' = p

\* s.mu.Lock()
SchedLock(p) == schedMu = NoProc /\ schedMu' = p

\* The deferred unlock left out: the caller returns holding s.mu.
SchedUnlockForgotten(p) == schedMu' = schedMu

\* defer s.mu.Unlock()
SchedUnlock(p) == schedMu' = NoProc

AddTask_Lock(p) ==
    /\ pc[p] = "AddTask"
    /\ SchedLock(p)
    /\ Goto(p, "AddTask_remove")
    /\ UNCHANGED <<tasks, cronEntries, cronNextID, loopVars, stateVars, heapVars, Settings, local>>

\* if existingTask, exists := s.tasks[key]; exists { Remove; delete }
AddTask_RemoveExisting(p) ==
    /\ pc[p] = "AddTask_remove"
    /\ local' = [local EXCEPT ![p].existingTask = tasks[local[p].path]]
    /\ IF tasks[local[p].path] # NoTask
         THEN /\ cronEntries' = CronRemove(cronEntries, tasks[local[p].path].ID)
              /\ cronNext' = [cronNext EXCEPT ![tasks[local[p].path].ID] = ZeroTime]
              /\ timerAt' = CronWake(cronEntries', cronNext')
              /\ tasks' = [tasks EXCEPT ![local[p].path] = NoTask]
         ELSE UNCHANGED <<cronEntries, cronNext, timerAt, tasks>>
    /\ Goto(p, "AddTask_add")
    /\ UNCHANGED <<schedMu, cronNextID, cronRunning, inFlight, crashed, clock,
                   stateVars, heapVars, Settings>>

\* id, err := s.cron.AddFunc(...); if err != nil { return err }; s.tasks[key] = &Task{...}
AddTask_AddFunc(p) ==
    /\ pc[p] = "AddTask_add"
    /\ IF ParseStandard(local[p].schedule)
         THEN /\ cronNextID' = cronNextID + 1
              /\ cronEntries' = CronAddFunc(cronEntries, cronNextID + 1, local[p].path,
                                            local[p].schedule, local[p].action)
              /\ tasks' = [tasks EXCEPT ![local[p].path] =
                              [ID |-> cronNextID + 1, Schedule |-> local[p].schedule,
                               Action |-> local[p].action]]
              /\ cronNext' = CronScheduleNext(cronNext, cronNextID + 1, local[p].schedule)
              /\ timerAt' = CronWake(cronEntries', cronNext')
              /\ local' = [local EXCEPT ![p].err = FALSE]
         ELSE /\ local' = [local EXCEPT ![p].err = TRUE]
              /\ UNCHANGED <<cronNextID, cronEntries, cronNext, timerAt, tasks>>
    /\ Goto(p, "AddTask_ret")
    /\ UNCHANGED <<schedMu, cronRunning, inFlight, crashed, clock, stateVars, heapVars, Settings>>

\* err = config.SaveConfig(configPath): the configuration file is written or
\* the call fails; nothing in memory is touched.  The handler goes on to its
\* response at label l, for which it still needs repo and err.
SaveConfig(p, l) ==
    /\ \E failed \in BOOLEAN :
         local' = [local EXCEPT ![p] =
                      [NoLocals EXCEPT !.handler = local[p].handler,
                                       !.path = local[p].path,
                                       !.repo = local[p].repo, !.err = failed]]
    /\ Goto(p, l)

\* A return after which HandleAddRepository takes the repository out of the
\* registry again when AddTask has failed.
AddTask_ReturnUndoingInsert(p) ==
    /\ pc[p] = "AddTask_ret"
    /\ SchedUnlock(p)
    /\ IF local[p].handler = "HandleAddRepository"
         THEN IF local[p].err
                THEN /\ Respond(p, "500")
                     /\ Repositories' = [Repositories EXCEPT ![local[p].path] = 0]
                ELSE /\ SaveConfig(p, "HandleAddRepository_respond")
                     /\ UNCHANGED Repositories
         ELSE /\ Goto(p, "idle") /\ local' = [local EXCEPT ![p] = NoLocals]
              /\ UNCHANGED Repositories
    /\ UNCHANGED <<tasks, cronEntries, cronNextID, loopVars, StateMuW, StateMuR,
                   heapVars, Settings>>

\* The deferred Unlock and the return to the caller.  HandleAddRepository
\* answers 500 on an error and otherwise calls config.SaveConfig.  A direct
\* caller is done.
AddTask_Return(p) ==
    /\ pc[p] = "AddTask_ret"
    /\ SchedUnlock(p)
    /\ IF local[p].handler = "HandleAddRepository"
         THEN IF local[p].err
                THEN Respond(p, "500")
                ELSE SaveConfig(p, "HandleAddRepository_respond")
         ELSE Goto(p, "idle") /\ local' = [local EXCEPT ![p] = NoLocals]
    /\ UNCHANGED <<tasks, cronEntries, cronNextID, loopVars, stateVars, heapVars, Settings>>

AddTask(p) ==
    \/ AddTask_Lock(p)
    \/ AddTask_RemoveExisting(p)
    \/ AddTask_AddFunc(p)
    \/ AddTask_Return(p)

\* An update that keeps the action of the task it replaces.
UpdateTaskKeepsAction(p) ==
    /\ pc[p] = "UpdateTask"
    /\ Goto(p, "AddTask")
    /\ local' = [local EXCEPT ![p].action =
                    IF tasks[local[p].path] # NoTask
                      THEN tasks[local[p].path].Action ELSE local[p].action]
    /\ UNCHANGED <<schedVars, loopVars, stateVars, heapVars, Settings>>

\* return s.AddTask(key, schedule, action)
UpdateTask(p) ==
    /\ pc[p] = "UpdateTask"
    /\ Goto(p, "AddTask")
    /\ UNCHANGED <<schedVars, loopVars, stateVars, heapVars, Settings, local>>

\* ------------------------------------------------------ Scheduler.RemoveTask
RemoveTask_Lock(p) ==
    /\ pc[p] = "RemoveTask"
    /\ SchedLock(p)
    /\ Goto(p, "RemoveTask_body")
    /\ UNCHANGED <<tasks, cronEntries, cronNextID, loopVars, stateVars, heapVars, Settings, local>>

\* A RemoveTask that forgets the map entry.
DeleteTaskForgotten(t, key) == t

\* delete(s.tasks, key)
DeleteTask(t, key) == [t EXCEPT ![key] = NoTask]

\* if task, exists := s.tasks[key]; exists { s.cron.Remove(task.ID); delete(s.tasks, key) }
RemoveTask_Body(p) ==
    /\ pc[p] = "RemoveTask_body"
    /\ local' = [local EXCEPT ![p].existingTask = tasks[local[p].path]]
    /\ IF tasks[local[p].path] # NoTask
         THEN /\ cronEntries' = CronRemove(cronEntries, tasks[local[p].path].ID)
              /\ cronNext' = [cronNext EXCEPT ![tasks[local[p].path].ID] = ZeroTime]
              /\ timerAt' = CronWake(cronEntries', cronNext')
              /\ tasks' = DeleteTask(tasks, local[p].path)
         ELSE UNCHANGED <<cronEntries, cronNext, timerAt, tasks>>
    /\ Goto(p, "RemoveTask_ret")
    /\ UNCHANGED <<schedMu, cronNextID, cronRunning, inFlight, crashed, clock,
                   stateVars, heapVars, Settings>>

\* The deferred Unlock and the return: to HandleDeleteRepository, which still
\* holds State.Mu, or to a direct caller, which is done.
RemoveTask_Return(p) ==
    /\ pc[p] = "RemoveTask_ret"
    /\ SchedUnlock(p)
    /\ IF local[p].handler = "HandleDeleteRepository"
         THEN /\ Goto(p, "HandleDeleteRepository_unlock")
              /\ local' = [local EXCEPT ![p].existingTask = NoTask]
         ELSE Goto(p, "idle") /\ local' = [local EXCEPT ![p] = NoLocals]
    /\ UNCHANGED <<tasks, cronEntries, cronNextID, loopVars, stateVars, heapVars, Settings>>

RemoveTask(p) ==
    \/ RemoveTask_Lock(p)
    \/ RemoveTask_Body(p)
    \/ RemoveTask_Return(p)

\* ------------------------------------------------------------- cron dispatch
\* A dispatch made with the task-map lock taken.
FireHoldingLock(j) ==
    /\ pc[j] = "free"
    /\ \A i \in Jobs : i < j => pc[i] # "free"
    /\ cronRunning
    /\ schedMu = NoProc
    /\ schedMu' = j
    /\ \E e \in cronEntries :
         /\ cronNext[e.ID] # ZeroTime
         /\ local' = [local EXCEPT ![j].path = e.Key, ![j].action = e.Action]
    /\ Goto(j, "job_run")
    /\ UNCHANGED <<tasks, cronEntries, cronNextID, loopVars, stateVars, heapVars, Settings>>

\* The cron loop starts the wrapped func of a due entry on a goroutine of its
\* own: func() { s.Logger.Info(...); action() }.  Goroutines are
\* interchangeable, so the new one takes the lowest free slot.  Any entry
\* that has a fire instant may be due: the instant itself is left open here.
Fire(j) ==
    /\ pc[j] = "free"
    /\ \A i \in Jobs : i < j => pc[i] # "free"
    /\ cronRunning
    /\ \E e \in cronEntries :
         /\ cronNext[e.ID] # ZeroTime
         /\ local' = [local EXCEPT ![j].path = e.Key, ![j].action = e.Action]
    /\ Goto(j, "job_run")
    /\ UNCHANGED <<schedVars, loopVars, stateVars, heapVars, Settings>>

\* An opaque action runs to completion.
RunAction(j) ==
    /\ pc[j] = "job_run"
    /\ Goto(j, "free")
    /\ local' = [local EXCEPT ![j] = NoLocals]
    /\ UNCHANGED <<schedVars, loopVars, stateVars, heapVars, Settings>>

\* ------------------------------------------- direct callers of the scheduler
\* Calls that will still ask cron for an entry id.
PendingAdds ==
    Cardinality({p \in Workers :
        \/ pc[p] \in {"UpdateTask", "AddTask", "AddTask_remove", "AddTask_add"}
        \/ /\ local[p].handler = "HandleAddRepository"
           /\ pc[p] \in {"updateRepo", "updateRepo_insert"}})

CallAddTask(p) ==
    /\ pc[p] = "idle"
    /\ cronNextID + PendingAdds < MaxEntryID
    /\ \E k \in Paths, s \in Schedules, a \in Actions :
         local' = [local EXCEPT ![p].handler = "AddTask", ![p].path = k,
                                ![p].schedule = s, ![p].action = a]
    /\ Goto(p, "AddTask")
    /\ UNCHANGED <<schedVars, loopVars, stateVars, heapVars, Settings>>

CallUpdateTask(p) ==
    /\ pc[p] = "idle"
    /\ cronNextID + PendingAdds < MaxEntryID
    /\ \E k \in Paths, s \in Schedules, a \in Actions :
         local' = [local EXCEPT ![p].handler = "UpdateTask", ![p].path = k,
                                ![p].schedule = s, ![p].action = a]
    /\ Goto(p, "UpdateTask")
    /\ UNCHANGED <<schedVars, loopVars, stateVars, heapVars, Settings>>

CallRemoveTask(p) ==
    /\ pc[p] = "idle"
    /\ \E k \in Paths :
         local' = [local EXCEPT ![p].handler = "RemoveTask", ![p].path = k]
    /\ Goto(p, "RemoveTask")
    /\ UNCHANGED <<schedVars, loopVars, stateVars, heapVars, Settings>>

\* ------------------------------------------------------------ specifications
\* NewScheduler: no tasks, an empty cron; State: an empty registry.  The
\* server has called Scheduler.Start(), so the dispatch loop is running.
Init ==
    /\ tasks = [k \in Paths |-> NoTask]
    /\ schedMu = NoProc
    /\ cronEntries = {}
    /\ cronNextID = 0
    /\ cronRunning = TRUE
    /\ cronNext = [i \in 1..MaxEntryID |-> ZeroTime]
    /\ timerAt = Later
    /\ inFlight = [i \in 1..MaxEntryID |-> 0]
    /\ crashed = FALSE
    /\ clock = 0
    /\ Repositories = [k \in Paths |-> 0]
    /\ StateMuW = NoProc
    /\ StateMuR = {}
    /\ Settings = "token"
    /\ repoObjs = [r \in RepoIds |-> NoRepo]
    /\ nextRepo = 0
    /\ pc = [p \in Procs |-> IF p \in Workers THEN "idle" ELSE "free"]
    /\ local = [p \in Procs |-> NoLocals]

NextSched ==
    \/ \E p \in Workers : CallAddTask(p)
    \/ \E p \in Workers : CallUpdateTask(p)
    \/ \E p \in Workers : CallRemoveTask(p)
    \/ \E p \in Workers : UpdateTask(p)
    \/ \E p \in Workers : AddTask(p)
    \/ \E p \in Workers : RemoveTask(p)
    \/ \E j \in Jobs : Fire(j)
    \/ \E j \in Jobs : RunAction(j)

SpecSched == Init /\ [][NextSched]_vars

\* ================================================================ State.Mu
\* State.Mu is a sync.RWMutex: one writer, or any number of readers.
\* A Lock that does not wait for readers or another writer.
StateLockNoWait(p) == StateMuW' = p /\ UNCHANGED StateMuR

\* state.State.Mu.Lock()
StateLock(p) ==
    /\ StateMuW = NoProc
    /\ StateMuR = {}
    /\ StateMuW' = p
    /\ UNCHANGED StateMuR

\* state.State.Mu.Unlock()
StateUnlock(p) == StateMuW' = NoProc /\ UNCHANGED StateMuR

\* state.State.Mu.RLock()
StateRLock(p) ==
    /\ StateMuW = NoProc
    /\ StateMuR' = StateMuR \cup {p}
    /\ UNCHANGED StateMuW

\* An RUnlock that was left out.
StateRUnlockForgotten(p) == UNCHANGED <<StateMuR, StateMuW>>

\* state.State.Mu.RUnlock()
StateRUnlock(p) == StateMuR' = StateMuR \ {p} /\ UNCHANGED StateMuW

HoldsStateMu(p) == StateMuW = p \/ p \in StateMuR

\* state.State.Repositories[repo.Path] = repo
RegistryInsert(m, r) == [m EXCEPT ![repoObjs[r].Path] = r]

\* delete(state.State.Repositories, repo.Path)
RegistryDelete(m, r) == [m EXCEPT ![repoObjs[r].Path] = 0]

\* The worker has returned from its handler and takes the next request.
Done(p) ==
    /\ pc[p] = "done"
    /\ Goto(p, "idle")
    /\ local' = [local EXCEPT ![p] = NoLocals]
    /\ UNCHANGED <<schedVars, loopVars, stateVars, heapVars, Settings>>

\* ------------------------------------------------------------ getRepository
\* A handler decodes its request and calls getRepository(path), which takes
\* the read lock.  (A worker waiting for the lock has done nothing yet, so
\* the wait is not a state of its own.)
getRepository_RLock(p) ==
    /\ pc[p] = "idle"
    /\ StateRLock(p)
    /\ \E h \in {"HandleUpdateRepository", "HandleDeleteRepository",
                 "HandleSyncRepository", "HandleCreateLocalIssue"}, k \in ReqPaths :
         local' = [local EXCEPT ![p].handler = h, ![p].path = k]
    /\ Goto(p, "getRepository_read")
    /\ UNCHANGED <<schedVars, loopVars, Repositories, heapVars, Settings>>

\* Where each caller of getRepository continues with the repository found.
AfterGetRepository(p) ==
    CASE local[p].handler = "HandleUpdateRepository" -> "HandleUpdateRepository_fetch"
      [] local[p].handler = "HandleDeleteRepository" -> "HandleDeleteRepository_lock"
      [] local[p].handler = "HandleSyncRepository"   -> "HandleSyncRepository_sync"
      [] local[p].handler = "HandleSwitchProvider"   -> "HandleSwitchProvider_provider"
      [] local[p].handler \in LocalMutators          -> "HandleLocalMutation_lock"
      [] OTHER                                       -> "HandleCreateLocalIssue_lock"

\* A lookup whose caller answers 200 when the path is absent.
getRepository_ReadLenient(p) ==
    /\ pc[p] = "getRepository_read"
    /\ StateRUnlock(p)
    /\ IF Repositories[local[p].path] = 0
         THEN Respond(p, "200")
         ELSE /\ local' = [local EXCEPT ![p].repo = Repositories[local[p].path]]
              /\ Goto(p, AfterGetRepository(p))
    /\ UNCHANGED <<schedVars, loopVars, Repositories, heapVars, Settings>>

\* repo, exists := state.State.Repositories[absPath]; RUnlock; every caller
\* answers 404 when the path is absent.
getRepository_Read(p) ==
    /\ pc[p] = "getRepository_read"
    /\ StateRUnlock(p)
    /\ IF Repositories[local[p].path] = 0
         THEN Respond(p, "404")
         ELSE /\ local' = [local EXCEPT ![p].repo = Repositories[local[p].path]]
              /\ Goto(p, AfterGetRepository(p))
    /\ UNCHANGED <<schedVars, loopVars, Repositories, heapVars, Settings>>

getRepository(p) == getRepository_RLock(p) \/ getRepository_Read(p)

\* --------------------------------------------------------------- updateRepo
\* What the caller of updateRepo does next: HandleAddRepository calls AddTask,
\* HandleUpdateRepository encodes repo.State and answers, 500 when the
\* encoding fails.
AfterUpdateRepo(p) ==
    IF local[p].handler = "HandleAddRepository"
      THEN Goto(p, "AddTask") /\ UNCHANGED local
      ELSE \E code \in {"200", "500"} : Respond(p, code)

\* err := repo.UpdateStatus(): on an error updateRepo returns without the
\* insert; otherwise it takes State.Mu.  (The call changes nothing the model
\* tracks, so the wait for the lock is part of the same state.)
updateRepo_UpdateStatus(p) ==
    /\ pc[p] = "updateRepo"
    /\ \/ /\ StateLock(p)
          /\ Goto(p, "updateRepo_insert")
          /\ UNCHANGED local
       \/ /\ AfterUpdateRepo(p)
          /\ UNCHANGED <<StateMuW, StateMuR>>
    /\ UNCHANGED <<schedVars, loopVars, Repositories, heapVars, Settings>>

\* state.State.Repositories[repo.Path] = repo; Unlock
updateRepo_Insert(p) ==
    /\ pc[p] = "updateRepo_insert"
    /\ Repositories' = RegistryInsert(Repositories, local[p].repo)
    /\ StateUnlock(p)
    /\ AfterUpdateRepo(p)
    /\ UNCHANGED <<schedVars, loopVars, heapVars, Settings>>

updateRepo(p) ==
    \/ updateRepo_UpdateStatus(p)
    \/ updateRepo_Insert(p)

\* ------------------------------------------------------ HandleListRepositories
HandleListRepositories_RLock(p) ==
    /\ pc[p] = "idle"
    /\ StateRLock(p)
    /\ local' = [local EXCEPT ![p].handler = "HandleListRepositories"]
    /\ Goto(p, "HandleListRepositories_encode")
    /\ UNCHANGED <<schedVars, loopVars, Repositories, heapVars, Settings>>

\* json.NewEncoder(w).Encode(state.State.Repositories), then the deferred RUnlock
HandleListRepositories_Encode(p) ==
    /\ pc[p] = "HandleListRepositories_encode"
    /\ StateRUnlock(p)
    /\ \E code \in {"200", "500"} : Respond(p, code)
    /\ UNCHANGED <<schedVars, loopVars, Repositories, heapVars, Settings>>

HandleListRepositories(p) ==
    \/ HandleListRepositories_RLock(p)
    \/ HandleListRepositories_Encode(p)

\* --------------------------------------------------------- HandleAddRepository
\* Decode, repository.NewRepository(absPath), git.PlainOpen(repo.Path): 400
\* when the path is no git repository, else on to updateRepo(repo).  The
\* action later handed to AddTask is the closure over repo.
HandleAddRepository_Begin(p) ==
    /\ pc[p] = "idle"
    /\ \/ Respond(p, "400") /\ UNCHANGED heapVars
       \/ /\ nextRepo < MaxRepos
          /\ cronNextID + PendingAdds < MaxEntryID
          /\ \E k \in ReqPaths, s \in {EveryMinute, Malformed} :
               /\ repoObjs' = [repoObjs EXCEPT ![nextRepo + 1] =
                                  [Path |-> k, Provider |-> "local",
                                   Remote |-> "local", Mu |-> NoProc]]
               /\ local' = [local EXCEPT ![p].handler = "HandleAddRepository",
                                         ![p].path = k, ![p].schedule = s,
                                         ![p].repo = nextRepo + 1,
                                         ![p].action = nextRepo + 1]
          /\ nextRepo' = nextRepo + 1
          /\ Goto(p, "updateRepo")
    /\ UNCHANGED <<schedVars, loopVars, stateVars, Settings>>

\* A response that takes the repository out of the registry again when the
\* save has failed.
HandleAddRepository_RespondUndoing(p) ==
    /\ pc[p] = "HandleAddRepository_respond"
    /\ Respond(p, IF local[p].err THEN "500" ELSE "201")
    /\ Repositories' = IF local[p].err
                          THEN [Repositories EXCEPT ![local[p].path] = 0]
                          ELSE Repositories
    /\ UNCHANGED <<schedVars, loopVars, StateMuW, StateMuR, heapVars, Settings>>

\* if err != nil { http.Error(w, ..., 500); return }; w.WriteHeader(201)
HandleAddRepository_Respond(p) ==
    /\ pc[p] = "HandleAddRepository_respond"
    /\ Respond(p, IF local[p].err THEN "500" ELSE "201")
    /\ UNCHANGED <<schedVars, loopVars, stateVars, heapVars, Settings>>

HandleAddRepository(p) ==
    \/ HandleAddRepository_Begin(p)
    \/ HandleAddRepository_Respond(p)

\* The action registered by HandleAddRepository, run by a job goroutine:
\* err := repo.Sync(...), logged on failure; then State.Mu.Lock().
SyncAction_Sync(j) ==
    /\ pc[j] = "job_run"
    /\ StateLock(j)
    /\ Goto(j, "job_insert")
    /\ UNCHANGED <<schedVars, loopVars, Repositories, heapVars, Settings, local>>

\* An action that releases the lock without storing the repository.
SyncAction_InsertSkipped(j) ==
    /\ pc[j] = "job_insert"
    /\ StateUnlock(j)
    /\ Goto(j, "free")
    /\ local' = [local EXCEPT ![j] = NoLocals]
    /\ UNCHANGED <<schedVars, loopVars, Repositories, heapVars, Settings>>

\* state.State.Repositories[repo.Path] = repo; Unlock
SyncAction_Insert(j) ==
    /\ pc[j] = "job_insert"
    /\ Repositories' = RegistryInsert(Repositories, local[j].action)
    /\ StateUnlock(j)
    /\ Goto(j, "free")
    /\ local' = [local EXCEPT ![j] = NoLocals]
    /\ UNCHANGED <<schedVars, loopVars, heapVars, Settings>>

SyncAction(j) ==
    \/ SyncAction_Sync(j)
    \/ SyncAction_Insert(j)

\* ------------------------------------------------------ HandleUpdateRepository
\* err = repo.Fetch(); a fetch error is only logged; then updateRepo(repo)
HandleUpdateRepository_Fetch(p) ==
    /\ pc[p] = "HandleUpdateRepository_fetch"
    /\ Goto(p, "updateRepo")
    /\ UNCHANGED <<schedVars, loopVars, stateVars, heapVars, Settings, local>>

HandleUpdateRepository(p) == HandleUpdateRepository_Fetch(p)

\* ------------------------------------------------------ HandleDeleteRepository
HandleDeleteRepository_Lock(p) ==
    /\ pc[p] = "HandleDeleteRepository_lock"
    /\ StateLock(p)
    /\ Goto(p, "HandleDeleteRepository_delete")
    /\ UNCHANGED <<schedVars, loopVars, Repositories, heapVars, Settings, local>>

\* delete(state.State.Repositories, repo.Path), then
\* state.State.Scheduler.RemoveTask(repo.Path) with State.Mu still held
HandleDeleteRepository_Delete(p) ==
    /\ pc[p] = "HandleDeleteRepository_delete"
    /\ Repositories' = RegistryDelete(Repositories, local[p].repo)
    /\ local' = [local EXCEPT ![p].path = repoObjs[local[p].repo].Path]
    /\ Goto(p, "RemoveTask")
    /\ UNCHANGED <<schedVars, loopVars, StateMuW, StateMuR, heapVars, Settings>>

\* state.State.Mu.Unlock(); err = config.SaveConfig(configPath)
HandleDeleteRepository_Unlock(p) ==
    /\ pc[p] = "HandleDeleteRepository_unlock"
    /\ StateUnlock(p)
    /\ SaveConfig(p, "HandleDeleteRepository_respond")
    /\ UNCHANGED <<schedVars, loopVars, Repositories, heapVars, Settings>>

\* if err != nil { http.Error(w, ..., 500); return }; w.WriteHeader(200)
HandleDeleteRepository_Respond(p) ==
    /\ pc[p] = "HandleDeleteRepository_respond"
    /\ Respond(p, IF local[p].err THEN "500" ELSE "200")
    /\ UNCHANGED <<schedVars, loopVars, stateVars, heapVars, Settings>>

HandleDeleteRepository(p) ==
    \/ HandleDeleteRepository_Lock(p)
    \/ HandleDeleteRepository_Delete(p)
    \/ HandleDeleteRepository_Unlock(p)
    \/ HandleDeleteRepository_Respond(p)

\* -------------------------------------------------------- HandleSyncRepository
\* err = repo.Sync(state.State.Agents, defaultWorkflow): 500 on an error
HandleSyncRepository_Sync(p) ==
    /\ pc[p] = "HandleSyncRepository_sync"
    /\ \E code \in {"200", "500"} : Respond(p, code)
    /\ UNCHANGED <<schedVars, loopVars, stateVars, heapVars, Settings>>

HandleSyncRepository(p) == HandleSyncRepository_Sync(p)

\* -------------------------------------------------------- HandleSwitchProvider
\* Decode {path, provider}; getRepository(req.Path) takes the read lock.
HandleSwitchProvider_Begin(p) ==
    /\ pc[p] = "idle"
    /\ StateRLock(p)
    /\ \E k \in ReqPaths, v \in Providers :
         local' = [local EXCEPT ![p].handler = "HandleSwitchProvider",
                                ![p].path = k, ![p].provider = v]
    /\ Goto(p, "getRepository_read")
    /\ UNCHANGED <<schedVars, loopVars, Repositories, heapVars, Settings>>

\* repo.RemoteProvider.Provider = req.Provider (and Path, Token)
HandleSwitchProvider_Provider(p) ==
    /\ pc[p] = "HandleSwitchProvider_provider"
    /\ repoObjs' = [repoObjs EXCEPT ![local[p].repo].Provider = local[p].provider]
    /\ Goto(p, "HandleSwitchProvider_remote")
    /\ UNCHANGED <<schedVars, loopVars, stateVars, nextRepo, Settings, local>>

\* options, err := remote.SettingsToOptions(repo.RemoteProvider): 500 on an
\* error; else repo.Remote = remote.New(options)
HandleSwitchProvider_Remote(p) ==
    /\ pc[p] = "HandleSwitchProvider_remote"
    /\ \/ Respond(p, "500") /\ UNCHANGED repoObjs
       \/ /\ repoObjs' = [repoObjs EXCEPT ![local[p].repo].Remote =
                                              repoObjs[local[p].repo].Provider]
          /\ Goto(p, "HandleSwitchProvider_lock")
          /\ UNCHANGED local
    /\ UNCHANGED <<schedVars, loopVars, stateVars, nextRepo, Settings>>

HandleSwitchProvider_Lock(p) ==
    /\ pc[p] = "HandleSwitchProvider_lock"
    /\ StateLock(p)
    /\ Goto(p, "HandleSwitchProvider_insert")
    /\ UNCHANGED <<schedVars, loopVars, Repositories, heapVars, Settings, local>>

\* state.State.Repositories[repo.Path] = repo; Unlock; then
\* config.GetHomeConfigPath and config.SaveConfig, either of which may fail
HandleSwitchProvider_Insert(p) ==
    /\ pc[p] = "HandleSwitchProvider_insert"
    /\ Repositories' = RegistryInsert(Repositories, local[p].repo)
    /\ StateUnlock(p)
    /\ SaveConfig(p, "HandleSwitchProvider_respond")
    /\ UNCHANGED <<schedVars, loopVars, heapVars, Settings>>

\* if err != nil { http.Error(w, ..., 500); return }; w.WriteHeader(200)
HandleSwitchProvider_Respond(p) ==
    /\ pc[p] = "HandleSwitchProvider_respond"
    /\ Respond(p, IF local[p].err THEN "500" ELSE "200")
    /\ UNCHANGED <<schedVars, loopVars, stateVars, heapVars, Settings>>

HandleSwitchProvider(p) ==
    \/ HandleSwitchProvider_Begin(p)
    \/ HandleSwitchProvider_Provider(p)
    \/ HandleSwitchProvider_Remote(p)
    \/ HandleSwitchProvider_Lock(p)
    \/ HandleSwitchProvider_Insert(p)
    \/ HandleSwitchProvider_Respond(p)

\* ------------------------------------------------------ HandleCreateLocalIssue
\* A Lock that does not wait for the holder.
RepoLockNoWait(p, r) == repoObjs' = [repoObjs EXCEPT ![r].Mu = p]

\* repo.Mu.Lock()
RepoLock(p, r) ==
    /\ repoObjs[r].Mu = NoProc
    /\ repoObjs' = [repoObjs EXCEPT ![r].Mu = p]

\* defer repo.Mu.Unlock()
RepoUnlock(p, r) == repoObjs' = [repoObjs EXCEPT ![r].Mu = NoProc]

HoldsRepoMu(p) == \E r \in RepoIds : repoObjs[r].Mu = p

HandleCreateLocalIssue_Lock(p) ==
    /\ pc[p] = "HandleCreateLocalIssue_lock"
    /\ RepoLock(p, local[p].repo)
    /\ Goto(p, "HandleCreateLocalIssue_call")
    /\ UNCHANGED <<schedVars, loopVars, stateVars, nextRepo, Settings, local>>

\* issueNumber, err := repo.Remote.CreateIssue(...): 500 on an error, 201
\* otherwise; the deferred repo.Mu.Unlock() runs on either return
HandleCreateLocalIssue_Call(p) ==
    /\ pc[p] = "HandleCreateLocalIssue_call"
    /\ RepoUnlock(p, local[p].repo)
    /\ \E code \in {"201", "500"} : Respond(p, code)
    /\ UNCHANGED <<schedVars, loopVars, stateVars, nextRepo, Settings>>

HandleCreateLocalIssue(p) ==
    \/ HandleCreateLocalIssue_Lock(p)
    \/ HandleCreateLocalIssue_Call(p)

\* ----------------------------------------------------- HandleLocalProviderPage
HandleLocalProviderPage_RLock(p) ==
    /\ pc[p] = "idle"
    /\ StateRLock(p)
    /\ \E k \in ReqPaths :
         local' = [local EXCEPT ![p].handler = "HandleLocalProviderPage", ![p].path = k]
    /\ Goto(p, "HandleLocalProviderPage_read")
    /\ UNCHANGED <<schedVars, loopVars, Repositories, heapVars, Settings>>

\* A lookup that keeps the read lock for the rest of the handler.
HandleLocalProviderPage_ReadHeld(p) ==
    /\ pc[p] = "HandleLocalProviderPage_read"
    /\ IF Repositories[local[p].path] = 0
         THEN Respond(p, "404")
         ELSE /\ local' = [local EXCEPT ![p].repo = Repositories[local[p].path]]
              /\ Goto(p, "HandleLocalProviderPage_fetch")
    /\ UNCHANGED <<schedVars, loopVars, stateVars, heapVars, Settings>>

\* repo, exists := state.State.Repositories[absPath]; RUnlock; 404 when absent
HandleLocalProviderPage_Read(p) ==
    /\ pc[p] = "HandleLocalProviderPage_read"
    /\ StateRUnlock(p)
    /\ IF Repositories[local[p].path] = 0
         THEN Respond(p, "404")
         ELSE /\ local' = [local EXCEPT ![p].repo = Repositories[local[p].path]]
              /\ Goto(p, "HandleLocalProviderPage_fetch")
    /\ UNCHANGED <<schedVars, loopVars, Repositories, heapVars, Settings>>

\* repo.Remote.FetchIssues, repo.Remote.FetchPullRequests, then the template:
\* 500 when one of them fails
HandleLocalProviderPage_Fetch(p) ==
    /\ pc[p] = "HandleLocalProviderPage_fetch"
    /\ \E code \in {"200", "500"} : Respond(p, code)
    /\ UNCHANGED <<schedVars, loopVars, stateVars, heapVars, Settings>>

HandleLocalProviderPage(p) ==
    \/ HandleLocalProviderPage_RLock(p)
    \/ HandleLocalProviderPage_Read(p)
    \/ HandleLocalProviderPage_Fetch(p)

\* ---------------------------------------------------- HandleGitHubRepositories
HandleGitHubRepositories_RLock(p) ==
    /\ pc[p] = "idle"
    /\ StateRLock(p)
    /\ local' = [local EXCEPT ![p].handler = "HandleGitHubRepositories"]
    /\ Goto(p, "HandleGitHubRepositories_read")
    /\ UNCHANGED <<schedVars, loopVars, Repositories, heapVars, Settings>>

\* remote := state.State.Remote; RUnlock
HandleGitHubRepositories_Read(p) ==
    /\ pc[p] = "HandleGitHubRepositories_read"
    /\ StateRUnlock(p)
    /\ Goto(p, "HandleGitHubRepositories_fetch")
    /\ UNCHANGED <<schedVars, loopVars, Repositories, heapVars, Settings, local>>

\* repos, err := remote.GitHub.FetchRepositories(): 500 on an error
HandleGitHubRepositories_Fetch(p) ==
    /\ pc[p] = "HandleGitHubRepositories_fetch"
    /\ \E code \in {"200", "500"} : Respond(p, code)
    /\ UNCHANGED <<schedVars, loopVars, stateVars, heapVars, Settings>>

HandleGitHubRepositories(p) ==
    \/ HandleGitHubRepositories_RLock(p)
    \/ HandleGitHubRepositories_Read(p)
    \/ HandleGitHubRepositories_Fetch(p)

\* ---------------------------------------------------------- HandleGitHubIssues
HandleGitHubIssues_RLock(p) ==
    /\ pc[p] = "idle"
    /\ StateRLock(p)
    /\ \E k \in ReqPaths :
         local' = [local EXCEPT ![p].handler = "HandleGitHubIssues", ![p].path = k]
    /\ Goto(p, "HandleGitHubIssues_read")
    /\ UNCHANGED <<schedVars, loopVars, Repositories, heapVars, Settings>>

\* repo, exists := state.State.Repositories[absPath]; RUnlock; 404 when absent
HandleGitHubIssues_Read(p) ==
    /\ pc[p] = "HandleGitHubIssues_read"
    /\ StateRUnlock(p)
    /\ IF Repositories[local[p].path] = 0
         THEN Respond(p, "404")
         ELSE /\ local' = [local EXCEPT ![p].repo = Repositories[local[p].path]]
              /\ Goto(p, "HandleGitHubIssues_rlock2")
    /\ UNCHANGED <<schedVars, loopVars, Repositories, heapVars, Settings>>

HandleGitHubIssues_RLock2(p) ==
    /\ pc[p] = "HandleGitHubIssues_rlock2"
    /\ StateRLock(p)
    /\ Goto(p, "HandleGitHubIssues_token")
    /\ UNCHANGED <<schedVars, loopVars, Repositories, heapVars, Settings, local>>

\* token := state.State.Settings.GitHubToken; RUnlock; 400 when it is empty
HandleGitHubIssues_Token(p) ==
    /\ pc[p] = "HandleGitHubIssues_token"
    /\ StateRUnlock(p)
    /\ IF Settings = NoToken
         THEN Respond(p, "400")
         ELSE Goto(p, "HandleGitHubIssues_update") /\ UNCHANGED local
    /\ UNCHANGED <<schedVars, loopVars, Repositories, heapVars, Settings>>

\* err = repo.UpdateIssues(): 500 on an error, else the issues are encoded
HandleGitHubIssues_Update(p) ==
    /\ pc[p] = "HandleGitHubIssues_update"
    /\ \E code \in {"200", "500"} : Respond(p, code)
    /\ UNCHANGED <<schedVars, loopVars, stateVars, heapVars, Settings>>

HandleGitHubIssues(p) ==
    \/ HandleGitHubIssues_RLock(p)
    \/ HandleGitHubIssues_Read(p)
    \/ HandleGitHubIssues_RLock2(p)
    \/ HandleGitHubIssues_Token(p)
    \/ HandleGitHubIssues_Update(p)

\* ------------------------------------------------------------------ handlers
Next ==
    \/ \E p \in Workers : HandleListRepositories(p)
    \/ \E p \in Workers : HandleAddRepository(p)
    \/ \E p \in Workers : HandleUpdateRepository(p)
    \/ \E p \in Workers : HandleDeleteRepository(p)
    \/ \E p \in Workers : HandleSyncRepository(p)
    \/ \E p \in Workers : HandleSwitchProvider(p)
    \/ \E p \in Workers : HandleCreateLocalIssue(p)
    \/ \E p \in Workers : HandleLocalProviderPage(p)
    \/ \E p \in Workers : HandleGitHubRepositories(p)
    \/ \E p \in Workers : HandleGitHubIssues(p)
    \/ \E p \in Workers : getRepository(p)
    \/ \E p \in Workers : updateRepo(p)
    \/ \E p \in Workers : AddTask(p)
    \/ \E p \in Workers : RemoveTask(p)
    \/ \E p \in Workers : Done(p)
    \/ \E j \in Jobs : Fire(j)
    \/ \E j \in Jobs : SyncAction(j)

Spec == Init /\ [][Next]_vars


\* --------------------------------------- the other mutating handlers of local.go
\* HandleAddLocalComment, HandleAddLocalReaction, HandleAddLocalLabel,
\* HandleUpdateLocalIssueState, HandleUpdateLocalPullRequestState,
\* HandleDeleteLocalIssue, HandleDeleteLocalPullRequest and
\* HandleUpdateLocalIssue: decode, getRepository(req.Path), which takes the
\* read lock.
HandleLocalMutation_Begin(p) ==
    /\ pc[p] = "idle"
    /\ StateRLock(p)
    /\ \E h \in LocalMutators \cup {"HandleCreateLocalIssue"}, k \in Paths,
          t \in ResourceTypes :
         local' = [local EXCEPT ![p].handler = h, ![p].path = k,
                                ![p].resourceType =
                                    IF h = "HandleAddLocalComment" THEN t ELSE ""]
    /\ Goto(p, "getRepository_read")
    /\ UNCHANGED <<schedVars, loopVars, Repositories, heapVars, Settings>>

\* repo.Mu.Lock(); defer repo.Mu.Unlock()
HandleLocalMutation_Lock(p) ==
    /\ pc[p] = "HandleLocalMutation_lock"
    /\ RepoLock(p, local[p].repo)
    /\ Goto(p, "HandleLocalMutation_call")
    /\ UNCHANGED <<schedVars, loopVars, stateVars, nextRepo, Settings, local>>

\* The handler's operation of repo.Remote (AddCommentReaction,
\* AddLabelToIssue, UpdateIssueState, UpdatePullRequestState, DeleteIssue,
\* DeletePullRequest, UpdateIssue): 500 on an error, else 200; the deferred
\* repo.Mu.Unlock() runs on either return.
HandleLocalMutation_Call(p) ==
    /\ pc[p] = "HandleLocalMutation_call"
    /\ local[p].handler # "HandleAddLocalComment"
    /\ RepoUnlock(p, local[p].repo)
    /\ \E code \in {"200", "500"} : Respond(p, code)
    /\ UNCHANGED <<schedVars, loopVars, stateVars, nextRepo, Settings>>

\* The operation of repo.Remote that a case of HandleAddLocalComment's switch
\* calls for a resource type.
CommentOperation(t) ==
    CASE t = "issue" -> "CreateIssueComment"
      [] t = "pr"    -> "CreatePRComment"
      [] OTHER       -> "none"

\* switch req.ResourceType: case "issue" calls repo.Remote.CreateIssueComment,
\* case "pr" calls repo.Remote.CreatePRComment, and the switch has no default;
\* err is what the call returned.
HandleAddLocalComment_Switch(p) ==
    /\ pc[p] = "HandleLocalMutation_call"
    /\ local[p].handler = "HandleAddLocalComment"
    /\ IF local[p].resourceType \in {"issue", "pr"}
         THEN \E failed \in BOOLEAN :
                local' = [local EXCEPT
                            ![p].calls = Append(@, CommentOperation(local[p].resourceType)),
                            ![p].err = failed]
         ELSE UNCHANGED local
    /\ Goto(p, "HandleAddLocalComment_respond")
    /\ UNCHANGED <<schedVars, loopVars, stateVars, heapVars, Settings>>

\* http.Error(w, err.Error(), http.StatusInternalServerError) in the case
\* whose call failed, w.WriteHeader(http.StatusCreated) after the switch;
\* the deferred repo.Mu.Unlock() runs on either return.
HandleAddLocalComment_Respond(p) ==
    /\ pc[p] = "HandleAddLocalComment_respond"
    /\ RepoUnlock(p, local[p].repo)
    /\ Respond(p, IF local[p].err THEN "500" ELSE "201")
    /\ UNCHANGED <<schedVars, loopVars, stateVars, nextRepo, Settings>>

HandleLocalMutation(p) ==
    \/ HandleLocalMutation_Begin(p)
    \/ HandleLocalMutation_Lock(p)
    \/ HandleLocalMutation_Call(p)
    \/ HandleAddLocalComment_Switch(p)
    \/ HandleAddLocalComment_Respond(p)

\* The repository object a registry loaded at start holds under each path.
LoadedRepo(k) == IF k = "/r1" THEN 1 ELSE 2

\* A server whose configuration named a repository under every path: the
\* registry holds them, each with its own object and lock.
InitLocal ==
    /\ tasks = [k \in Paths |-> NoTask]
    /\ schedMu = NoProc
    /\ cronEntries = {}
    /\ cronNextID = 0
    /\ cronRunning = TRUE
    /\ cronNext = [i \in 1..MaxEntryID |-> ZeroTime]
    /\ timerAt = Later
    /\ inFlight = [i \in 1..MaxEntryID |-> 0]
    /\ crashed = FALSE
    /\ clock = 0
    /\ Repositories = [k \in Paths |-> LoadedRepo(k)]
    /\ StateMuW = NoProc
    /\ StateMuR = {}
    /\ Settings = "token"
    /\ repoObjs = [r \in RepoIds |->
                     IF \E k \in Paths : LoadedRepo(k) = r
                       THEN [Path |-> CHOOSE k \in Paths : LoadedRepo(k) = r,
                             Provider |-> "local", Remote |-> "local", Mu |-> NoProc]
                       ELSE NoRepo]
    /\ nextRepo = Cardinality(Paths)
    /\ pc = [p \in Procs |-> IF p \in Workers THEN "idle" ELSE "free"]
    /\ local = [p \in Procs |-> NoLocals]

\* Request workers serve the mutating handlers of local.go.
NextLocal ==
    \/ \E p \in Workers : HandleLocalMutation(p)
    \/ \E p \in Workers : HandleCreateLocalIssue(p)
    \/ \E p \in Workers : getRepository_Read(p)
    \/ \E p \in Workers : Done(p)

SpecLocal == InitLocal /\ [][NextLocal]_vars

\* ----------------------------------------------------------- HandleGetSettings
HandleGetSettings_RLock(p) ==
    /\ pc[p] = "idle"
    /\ StateRLock(p)
    /\ local' = [local EXCEPT ![p].handler = "HandleGetSettings"]
    /\ Goto(p, "HandleGetSettings_encode")
    /\ UNCHANGED <<schedVars, loopVars, Repositories, heapVars, Settings>>

\* json.NewEncoder(w).Encode(state.State.Settings), then the deferred RUnlock
HandleGetSettings_Encode(p) ==
    /\ pc[p] = "HandleGetSettings_encode"
    /\ StateRUnlock(p)
    /\ \E code \in {"200", "500"} : Respond(p, code)
    /\ UNCHANGED <<schedVars, loopVars, Repositories, heapVars, Settings>>

HandleGetSettings(p) ==
    \/ HandleGetSettings_RLock(p)
    \/ HandleGetSettings_Encode(p)

\* -------------------------------------------------------- HandleUpdateSettings
\* Decode the new settings, 400 when the body is malformed; then
\* handleSettingsChange(settings), which takes State.Mu.
HandleUpdateSettings_Begin(p) ==
    /\ pc[p] = "idle"
    /\ \/ /\ local' = [local EXCEPT ![p].handler = "HandleUpdateSettings"]
          /\ Respond(p, "400")
          /\ UNCHANGED <<StateMuW, StateMuR>>
       \/ /\ StateLock(p)
          /\ \E v \in SettingsValues :
               local' = [local EXCEPT ![p].handler = "HandleUpdateSettings",
                                      ![p].newSettings = v]
          /\ Goto(p, "handleSettingsChange_write")
    /\ UNCHANGED <<schedVars, loopVars, Repositories, heapVars, Settings>>

\* state.State.Settings = newSettings; state.State.Mu.Unlock()
handleSettingsChange_Write(p) ==
    /\ pc[p] = "handleSettingsChange_write"
    /\ Settings' = local[p].newSettings
    /\ StateUnlock(p)
    /\ Goto(p, "handleSettingsChange_update")
    /\ UNCHANGED <<schedVars, loopVars, Repositories, heapVars, local>>

\* UpdateAgents failing and handleSettingsChange saving the configuration
\* all the same.
handleSettingsChange_UpdateAgentsThenSave(p) ==
    /\ pc[p] = "handleSettingsChange_update"
    /\ \/ Goto(p, "handleSettingsChange_workflows") /\ UNCHANGED local
       \/ Goto(p, "handleSettingsChange_save") /\ UNCHANGED local
    /\ UNCHANGED <<schedVars, loopVars, stateVars, heapVars, Settings>>

\* if err := state.State.UpdateAgents(); err != nil { return err }:
\* HandleUpdateSettings answers 500 with the error
handleSettingsChange_UpdateAgents(p) ==
    /\ pc[p] = "handleSettingsChange_update"
    /\ \/ Goto(p, "handleSettingsChange_workflows") /\ UNCHANGED local
       \/ Respond(p, "500")
    /\ UNCHANGED <<schedVars, loopVars, stateVars, heapVars, Settings>>

\* if err := state.State.UpdateWorkflows(); err != nil { return err }
handleSettingsChange_UpdateWorkflows(p) ==
    /\ pc[p] = "handleSettingsChange_workflows"
    /\ \/ Goto(p, "handleSettingsChange_save") /\ UNCHANGED local
       \/ Respond(p, "500")
    /\ UNCHANGED <<schedVars, loopVars, stateVars, heapVars, Settings>>

\* config.SaveConfig(configPath): 500 when os.UserHomeDir or the save fails,
\* w.WriteHeader(http.StatusOK) otherwise
handleSettingsChange_SaveConfig(p) ==
    /\ pc[p] = "handleSettingsChange_save"
    /\ \E code \in {"200", "500"} : Respond(p, code)
    /\ UNCHANGED <<schedVars, loopVars, stateVars, heapVars, Settings>>

HandleUpdateSettings(p) ==
    \/ HandleUpdateSettings_Begin(p)
    \/ handleSettingsChange_Write(p)
    \/ handleSettingsChange_UpdateAgents(p)
    \/ handleSettingsChange_UpdateWorkflows(p)
    \/ handleSettingsChange_SaveConfig(p)

\* Request workers serve the handlers that read or write State.Settings, on
\* a registry loaded at start.
NextSettings ==
    \/ \E p \in Workers : HandleGetSettings(p)
    \/ \E p \in Workers : HandleUpdateSettings(p)
    \/ \E p \in Workers : HandleGitHubIssues(p)
    \/ \E p \in Workers : HandleLocalProviderPage(p)
    \/ \E p \in Workers : HandleSwitchProvider(p)
    \/ \E p \in Workers : getRepository_Read(p)
    \/ \E p \in Workers : Done(p)

SpecSettings == InitLocal /\ [][NextSettings]_vars

\* ------------------------------------------------------------------ HandleLogs
\* The log file is a sequence of lines: an empty line, a line that is not
\* JSON, or a JSON object with the fields id, level, msg and ts.  Strings
\* that the handler folds, escapes and searches are sequences of characters.
MaxLines == 3
LogLevels   == {"INFO", "error"}
LogMessages == {<<"A">>, <<"<">>}
LogTimes    == {1, 2}
LogLines ==
    {[kind |-> "empty"], [kind |-> "garbage"]}
    \cup {[kind |-> "json", id |-> i, level |-> l, msg |-> m, ts |-> t] :
            i \in LogIDs \cup {""}, l \in LogLevels, m \in LogMessages, t \in LogTimes}
LogFiles == UNION {[1..n -> LogLines] : n \in 0..MaxLines}

\* The query parameters level, search and limit.
LevelParams  == {"", "info"}
SearchParams == {<<>>, <<"a">>}
LimitParams  == {"", "1", "0"}

\* limit := 10; strconv.Atoi(limitStr) replaces it when it parses.
ParseLimit(limitStr) ==
    CASE limitStr = "1" -> 1
      [] limitStr = "0" -> 0
      [] OTHER          -> 10

\* strings.ToLower, character by character.
ToLower(s) == [i \in 1..Len(s) |-> IF s[i] = "A" THEN "a" ELSE s[i]]

\* strings.EqualFold on the level names: equal when folded to one case.
EqualFold(a, b) ==
    LET Fold(l) == IF l = "INFO" THEN "info" ELSE l
    IN  Fold(a) = Fold(b)

\* html.EscapeString: "<" becomes "&lt;", the other characters of the
\* messages stay.
RECURSIVE EscapeString(_)
EscapeString(s) ==
    IF s = <<>> THEN <<>>
    ELSE (IF Head(s) = "<" THEN <<"&", "l", "t", ";">> ELSE <<Head(s)>>)
             \o EscapeString(Tail(s))

\* strings.Contains
Contains(s, sub) ==
    \E i \in 0..(Len(s) - Len(sub)) : SubSeq(s, i + 1, i + Len(sub)) = sub

\* json.Unmarshal(fullLine, &entry) of a JSON line, entry.Time from its ts,
\* and the HTML escaping of the message.
ParseEntry(line) ==
    [ID |-> line.id, Level |-> line.level, Message |-> EscapeString(line.msg),
     Time |-> line.ts]

\* The level and search filters, applied to the escaped entry.
PassesFilters(entry, level, search) ==
    /\ ~(level # "" /\ ~EqualFold(entry.Level, level))
    /\ ~(search # <<>> /\ ~Contains(ToLower(entry.Message), ToLower(search)))

\* Group by conversation ID: append to the conversation, or start it.
AddToConversation(convs, entry) ==
    IF convs[entry.ID] # NoConv
      THEN [convs EXCEPT ![entry.ID].Messages = Append(@, entry),
                         ![entry.ID].MessageCount = @ + 1]
      ELSE [convs EXCEPT ![entry.ID] =
               [StartTime |-> entry.Time, Messages |-> <<entry>>, MessageCount |-> 1]]

\* The request's parameters; os.Open(log.LogFile), 500 when it fails.
HandleLogs_Begin(p) ==
    /\ pc[p] = "idle"
    /\ \/ /\ local' = [local EXCEPT ![p].handler = "HandleLogs"]
          /\ Respond(p, "500")
       \/ /\ \E f \in LogFiles, lv \in LevelParams, sr \in SearchParams, lm \in LimitParams :
               local' = [local EXCEPT
                           ![p].handler = "HandleLogs",
                           ![p].logs =
                               [file |-> f, pos |-> 0, level |-> lv, search |-> sr,
                                limit |-> ParseLimit(lm),
                                conversations |-> [id \in LogIDs |-> NoConv],
                                response |-> <<>>]]
          /\ Goto(p, "HandleLogs_read")
    /\ UNCHANGED <<schedVars, loopVars, stateVars, heapVars, Settings>>

\* One round of the outer loop: reader.ReadLine() until the line is whole
\* (500 on a read error other than EOF); the loop ends when fullLine is empty,
\* which it is at the end of the file and on an empty line; a line that is
\* not JSON, or that a filter rejects, is skipped; an entry with an ID joins
\* its conversation.
HandleLogs_ReadLine(p) ==
    /\ pc[p] = "HandleLogs_read"
    /\ LET L == local[p].logs
           Skip == local' = [local EXCEPT ![p].logs.pos = @ + 1]
       IN  \/ Respond(p, "500")
           \/ IF L.pos = Len(L.file) \/ L.file[L.pos + 1].kind = "empty"
                THEN Goto(p, "HandleLogs_sort") /\ UNCHANGED local
                ELSE /\ UNCHANGED pc
                     /\ ~crashed
                     /\ IF L.file[L.pos + 1].kind = "garbage"
                          THEN Skip
                          ELSE LET entry == ParseEntry(L.file[L.pos + 1])
                               IN  IF PassesFilters(entry, L.level, L.search)
                                        /\ entry.ID # ""
                                     THEN local' = [local EXCEPT
                                            ![p].logs.pos = @ + 1,
                                            ![p].logs.conversations =
                                                AddToConversation(@, entry)]
                                     ELSE Skip
    /\ UNCHANGED <<schedVars, loopVars, stateVars, heapVars, Settings>>

\* The orders sort.Slice may leave a sequence in, rank[i] being the sort key
\* of s[i]: every arrangement of its elements in which no element comes
\* before one of lower rank (sort.Slice is not stable).
Arrangements(s, rank) ==
    {[i \in 1..Len(s) |-> s[f[i]]] :
        f \in {g \in [1..Len(s) -> 1..Len(s)] :
                 /\ \A i, j \in 1..Len(s) : i # j => g[i] # g[j]
                 /\ \A i, j \in 1..Len(s) : i < j => rank[g[i]] <= rank[g[j]]}}

\* The conversations of the map in some order of iteration, each with its
\* messages sorted by time and its status, the level of its last message.
RECURSIVE SeqOfSet(_)
SeqOfSet(S) ==
    IF S = {} THEN {<<>>}
    ELSE UNION {{<<x>> \o t : t \in SeqOfSet(S \ {x})} : x \in S}

\* (less: conv.Messages[i].Time.Before(conv.Messages[j].Time))
ConversationViews(convs, id) ==
    {[ID |-> id, StartTime |-> convs[id].StartTime, Messages |-> m,
      MessageCount |-> convs[id].MessageCount, Status |-> m[Len(m)].Level] :
        m \in Arrangements(convs[id].Messages,
                             [i \in 1..Len(convs[id].Messages) |-> convs[id].Messages[i].Time])}

\* Convert the map to a slice, sort each conversation's messages by time,
\* sort the conversations by start time, most recent first (less:
\* sortedConversations[i].StartTime.After(sortedConversations[j].StartTime)), and keep the
\* first limit of them when limit > 0.
HandleLogs_Sort(p) ==
    /\ pc[p] = "HandleLogs_sort"
    /\ LET L == local[p].logs
           present == {id \in LogIDs : L.conversations[id] # NoConv}
       IN  \E order \in SeqOfSet(present) :
           \E views \in [1..Len(order) -> UNION {ConversationViews(L.conversations, id) : id \in present}] :
             /\ \A i \in 1..Len(order) : views[i] \in ConversationViews(L.conversations, order[i])
             /\ \E sorted \in Arrangements(views, [i \in 1..Len(views) |-> 0 - views[i].StartTime]) :
                  local' = [local EXCEPT ![p].logs.response =
                               IF L.limit > 0 /\ Len(sorted) > L.limit
                                 THEN SubSeq(sorted, 1, L.limit)
                                 ELSE sorted]
    /\ Goto(p, "HandleLogs_respond")
    /\ UNCHANGED <<schedVars, loopVars, stateVars, heapVars, Settings>>

\* json.NewEncoder(w).Encode(sortedConversations) or
\* templates.ExecuteTemplate(w, "layout.html", data): 500 on an error.
HandleLogs_Respond(p) ==
    /\ pc[p] = "HandleLogs_respond"
    /\ \E code \in {"200", "500"} : Respond(p, code)
    /\ UNCHANGED <<schedVars, loopVars, stateVars, heapVars, Settings>>

HandleLogs(p) ==
    \/ HandleLogs_Begin(p)
    \/ HandleLogs_ReadLine(p)
    \/ HandleLogs_Sort(p)
    \/ HandleLogs_Respond(p)

\* HandleLogs shares nothing with the other handlers: one worker serving
\* log requests, each on a log file as it is when the request opens it.
LogWorker == 101

NextLogs ==
    \/ HandleLogs(LogWorker)
    \/ Done(LogWorker)

SpecLogs == Init /\ [][NextLogs]_vars
\* ------------------------------------------------- the dispatch loop in time
ScheduleOfEntry(i) == (CHOOSE e \in cronEntries : e.ID = i).Schedule

\* Entries the loop finds due when its timer fires.
DueEntries ==
    {e \in cronEntries : cronNext[e.ID] # ZeroTime /\ cronNext[e.ID] <= clock}

\* Scheduler.Start -> s.cron.Start(): a loop that is not running starts;
\* run() computes Next of every entry from the current instant and arms its
\* timer.  Start on a running loop returns at once.
Start ==
    /\ ~crashed
    /\ ~cronRunning
    /\ cronRunning' = TRUE
    /\ cronNext' = [i \in 1..MaxEntryID |->
                       IF \E e \in cronEntries : e.ID = i
                         THEN ScheduleNext(ScheduleOfEntry(i), clock) ELSE ZeroTime]
    /\ timerAt' = TimerFor(cronEntries, cronNext')
    /\ UNCHANGED <<schedVars, stateVars, heapVars, Settings, inFlight, crashed, clock, pc, local>>

\* A Stop that waits for the invocations in flight.
StopWaiting ==
    /\ ~crashed
    /\ cronRunning
    /\ \A i \in 1..MaxEntryID : inFlight[i] = 0
    /\ cronRunning' = FALSE
    /\ timerAt' = Later
    /\ UNCHANGED <<schedVars, stateVars, heapVars, Settings, cronNext, inFlight, crashed, clock,
                   pc, local>>

\* Scheduler.Stop -> s.cron.Stop(): the loop takes the stop signal, stops its
\* timer and returns; Stop hands back a context and does not wait for the
\* job goroutines.  Stop on a stopped loop returns at once.
Stop ==
    /\ ~crashed
    /\ cronRunning
    /\ cronRunning' = FALSE
    /\ timerAt' = Later
    /\ UNCHANGED <<schedVars, stateVars, heapVars, Settings, cronNext, inFlight, crashed, clock,
                   pc, local>>

\* Time passes; a running loop's timer fires before time passes it.
Tick ==
    /\ ~crashed
    /\ clock < MaxClock
    /\ cronRunning => clock < timerAt
    /\ clock' = clock + 1
    /\ UNCHANGED <<schedVars, stateVars, heapVars, Settings, cronRunning, cronNext, timerAt,
                   inFlight, crashed, pc, local>>

\* A dispatch that skips an entry whose earlier invocation is still running.
startJobSkipping(fl, due) ==
    [i \in 1..MaxEntryID |->
        IF (\E e \in due : e.ID = i) /\ fl[i] = 0 THEN fl[i] + 1 ELSE fl[i]]

\* c.startJob for every due entry: each wrapped func runs on a goroutine of
\* its own, whatever is already running.
startJob(fl, due) ==
    [i \in 1..MaxEntryID |-> IF \E e \in due : e.ID = i THEN fl[i] + 1 ELSE fl[i]]

\* The timer fires: every due entry is started and its Next recomputed from
\* the current instant, then the timer is armed for the earliest Next.
Wake ==
    /\ ~crashed
    /\ cronRunning
    /\ clock = timerAt
    /\ \A e \in DueEntries : inFlight[e.ID] < MaxInFlight
    /\ inFlight' = startJob(inFlight, DueEntries)
    /\ cronNext' = [i \in 1..MaxEntryID |->
                       IF \E e \in DueEntries : e.ID = i
                         THEN ScheduleNext(ScheduleOfEntry(i), clock) ELSE cronNext[i]]
    /\ timerAt' = TimerFor(cronEntries, cronNext')
    /\ UNCHANGED <<schedVars, stateVars, heapVars, Settings, cronRunning, crashed, clock, pc, local>>

\* An invocation of entry i's wrapped func returns; an error inside the
\* action is logged by the action itself.
Complete(i) ==
    /\ ~crashed
    /\ inFlight[i] > 0
    /\ inFlight' = [inFlight EXCEPT ![i] = inFlight[i] - 1]
    /\ UNCHANGED <<schedVars, stateVars, heapVars, Settings, cronRunning, cronNext, timerAt,
                   crashed, clock, pc, local>>

\* The action panics: cron.New() installs no recovering job wrapper and the
\* wrapped func has no recover, so the panic ends the process.
Panic(i) ==
    /\ ~crashed
    /\ inFlight[i] > 0
    /\ crashed' = TRUE
    /\ UNCHANGED <<schedVars, stateVars, heapVars, Settings, cronRunning, cronNext, timerAt,
                   inFlight, clock, pc, local>>

\* A caller registers a task while the loop is observed.
CronCallAddTask(p) ==
    /\ pc[p] = "idle"
    /\ cronNextID + PendingAdds < MaxEntryID
    /\ \E k \in Paths, s \in CronSchedules :
         local' = [local EXCEPT ![p].handler = "AddTask", ![p].path = k,
                                ![p].schedule = s, ![p].action = 1]
    /\ Goto(p, "AddTask")
    /\ UNCHANGED <<schedVars, loopVars, stateVars, heapVars, Settings>>

\* NewScheduler: no tasks, an empty cron whose loop has not been started.
InitCron ==
    /\ tasks = [k \in Paths |-> NoTask]
    /\ schedMu = NoProc
    /\ cronEntries = {}
    /\ cronNextID = 0
    /\ cronRunning = FALSE
    /\ cronNext = [i \in 1..MaxEntryID |-> ZeroTime]
    /\ timerAt = Later
    /\ inFlight = [i \in 1..MaxEntryID |-> 0]
    /\ crashed = FALSE
    /\ clock = 0
    /\ Repositories = [k \in Paths |-> 0]
    /\ StateMuW = NoProc
    /\ StateMuR = {}
    /\ Settings = "token"
    /\ repoObjs = [r \in RepoIds |-> NoRepo]
    /\ nextRepo = 0
    /\ pc = [p \in Procs |-> IF p \in Workers THEN "idle" ELSE "free"]
    /\ local = [p \in Procs |-> NoLocals]

NextCron ==
    \/ \E p \in Workers : CronCallAddTask(p)
    \/ \E p \in Workers : CallRemoveTask(p)
    \/ \E p \in Workers : AddTask(p)
    \/ \E p \in Workers : RemoveTask(p)
    \/ Start
    \/ Stop
    \/ Tick
    \/ Wake
    \/ \E i \in 1..MaxEntryID : Complete(i)
    \/ \E i \in 1..MaxEntryID : Panic(i)

SpecCron == InitCron /\ [][NextCron]_vars

\* ==================================================================== claims
\* A caller of AddTask / UpdateTask that is about to return.
Returning(p) == pc[p] = "AddTask_ret"

\* The task AddTask(key, schedule, action) is meant to leave under its key.
Registered(p) ==
    /\ tasks[local[p].path] # NoTask
    /\ tasks[local[p].path].Schedule = local[p].schedule
    /\ tasks[local[p].path].Action = local[p].action
    /\ EntriesOf(local[p].path) =
          {[ID |-> tasks[local[p].path].ID, Schedule |-> local[p].schedule,
            Key |-> local[p].path, Action |-> local[p].action]}

\* A dispatch by the cron loop onto job goroutine j.
Dispatched(j) == pc[j] = "free" /\ pc'[j] = "job_run"

\* C1: when AddTask(k, s, B) with a valid schedule returns, k has exactly one
\* entry, carrying s and B; and every fire the cron loop dispatches for a key
\* invokes the action currently registered under that key, so the action of a
\* replaced task is never dispatched again.
C1_ReplaceLeavesOneEntry ==
    /\ [](\A p \in Workers : (Returning(p) /\ ~local[p].err) => Registered(p))
    /\ [][\A j \in Jobs : Dispatched(j) =>
            /\ tasks[local'[j].path] # NoTask
            /\ tasks[local'[j].path].Action = local'[j].action]_vars

\* A second AddTask replaced a task with another action, and a fire of the key
\* runs the new action.
C1_Witness ==
    \E p \in Workers, j \in Jobs :
        /\ Returning(p) /\ ~local[p].err
        /\ local[p].existingTask # NoTask
        /\ local[p].existingTask.Action # local[p].action
        /\ pc[j] = "job_run"
        /\ local[j].path = local[p].path
        /\ local[j].action = local[p].action

\* C2: when AddTask fails on a malformed schedule while its key had a task,
\* that task is still in the task map, with its cron entry.
C2_FailedAddKeepsPrior ==
    \A p \in Workers :
        (Returning(p) /\ local[p].err /\ local[p].existingTask # NoTask) =>
            /\ tasks[local[p].path] = local[p].existingTask
            /\ \E e \in cronEntries : e.ID = local[p].existingTask.ID

\* C3: every key has at most one entry: the cron entries of a key are exactly
\* the entry of the task the map holds under it, none when the key is absent.
C3_OneEntryPerKey ==
    \A k \in Paths :
        /\ Cardinality(EntriesOf(k)) <= 1
        /\ {e.ID : e \in EntriesOf(k)} =
               IF tasks[k] = NoTask THEN {} ELSE {tasks[k].ID}

\* One caller has just registered a key while another call on the same key
\* waits for the scheduler's lock.
C3_Witness ==
    \E p, q \in Workers :
        /\ p # q
        /\ Returning(p) /\ ~local[p].err
        /\ pc[q] \in {"AddTask", "RemoveTask"}
        /\ local[q].path = local[p].path

\* C10: RemoveTask(k) on an absent key leaves the task map and the cron
\* entries as they were, and any RemoveTask(k) leaves k absent, so a second
\* call changes nothing.
C10_RemoveAbsentIsNoop ==
    [][\A p \in Workers :
          (pc[p] = "RemoveTask_body" /\ pc'[p] = "RemoveTask_ret") =>
              /\ tasks[local[p].path] = NoTask =>
                     (tasks' = tasks /\ cronEntries' = cronEntries)
              /\ tasks'[local[p].path] = NoTask
              /\ \A e \in cronEntries' : e.Key # local[p].path]_vars

\* RemoveTask found no task under its key while another key has one.
C10_Witness ==
    \E p \in Workers :
        /\ pc[p] = "RemoveTask_ret"
        /\ local[p].existingTask = NoTask
        /\ \E k \in Paths : k # local[p].path /\ tasks[k] # NoTask

\* The repository object a process writes back into the registry: a scheduled
\* action closes over it, a handler holds it in repo.
RepoOf(p) == IF p \in Jobs THEN local[p].action ELSE local[p].repo

\* A process that looked a repository up earlier (or closed over it) and now
\* stores it back under its path.
Reinserting(p) ==
    /\ pc[p] \in {"updateRepo_insert", "HandleSwitchProvider_insert", "job_insert"}
    /\ local[p].handler # "HandleAddRepository"
    /\ pc'[p] # pc[p]

\* C4: when HandleUpdateRepository, HandleSwitchProvider or a scheduled sync
\* action reaches its re-insert step after the path was deleted, the path is
\* still absent from the registry after the step.
C4_DeletedStaysDeleted ==
    [][\A p \in Procs :
          (Reinserting(p) /\ Repositories[repoObjs[RepoOf(p)].Path] = 0) =>
              Repositories'[repoObjs[RepoOf(p)].Path] = 0]_vars

\* Where a process writes the Repositories map, and where it reads it.
MapWritePCs == {"updateRepo_insert", "HandleDeleteRepository_delete",
                "HandleSwitchProvider_insert", "job_insert"}
MapReadPCs  == {"getRepository_read", "HandleListRepositories_encode",
                "HandleLocalProviderPage_read", "HandleGitHubIssues_read"}

\* C5: a process about to write the Repositories map holds State.Mu
\* exclusively, with no reader inside; a process about to read it holds
\* State.Mu shared or exclusively; and the map only ever changes in a step of
\* the process that holds State.Mu exclusively.
C5_MapAccessUnderStateMu ==
    /\ [](/\ \A p \in Procs : pc[p] \in MapWritePCs => (StateMuW = p /\ StateMuR = {})
          /\ \A p \in Procs : pc[p] \in MapReadPCs => HoldsStateMu(p)
          /\ StateMuW # NoProc => StateMuR = {})
    /\ [][Repositories' # Repositories =>
            /\ StateMuW \in Procs
            /\ pc[StateMuW] \in MapWritePCs
            /\ pc'[StateMuW] # pc[StateMuW]]_vars

\* A job is about to write the map while a handler that wants the write lock
\* and a handler that already finished its read are kept out.
C5_Witness ==
    \E j \in Jobs, p \in Workers :
        /\ pc[j] = "job_insert"
        /\ pc[p] \in {"HandleDeleteRepository_lock", "HandleSwitchProvider_lock",
                      "updateRepo"}

\* C6: no process holds State.Mu and a repository's Mu at the same time, in
\* either order of acquisition.
C6_NoNestedStateAndRepoMu ==
    \A p \in Procs :
        /\ ~(HoldsStateMu(p) /\ HoldsRepoMu(p))
        /\ pc[p] = "HandleCreateLocalIssue_lock" => ~HoldsStateMu(p)
        /\ HoldsRepoMu(p) => pc[p] = "HandleCreateLocalIssue_call"

\* One worker works under a repository's lock while another holds State.Mu.
C6_Witness ==
    \E p, q \in Workers :
        /\ p # q
        /\ pc[p] = "HandleCreateLocalIssue_call"
        /\ repoObjs[local[p].repo].Mu = p
        /\ HoldsStateMu(q)

\* C7: the provider settings and the Remote of a repository only change in a
\* step of the process that holds that repository's Mu.
C7_MutationUnderRepoMu ==
    [][\A r \in RepoIds :
          (/\ repoObjs[r].Path # NoPath
           /\ \/ repoObjs'[r].Provider # repoObjs[r].Provider
              \/ repoObjs'[r].Remote # repoObjs[r].Remote) =>
              /\ repoObjs[r].Mu \in Workers
              /\ pc'[repoObjs[r].Mu] # pc[repoObjs[r].Mu]]_vars

\* Where a process is inside a call to a provider, to git, to Sync or to
\* UpdateStatus / UpdateIssues.
ExternalCallPCs == {"updateRepo", "HandleUpdateRepository_fetch",
                    "HandleSyncRepository_sync", "HandleCreateLocalIssue_call",
                    "HandleLocalProviderPage_fetch", "HandleGitHubRepositories_fetch",
                    "HandleGitHubIssues_update", "job_run"}

\* C8: a process inside an external call holds State.Mu neither shared nor
\* exclusively.
C8_NoExternalCallUnderStateMu ==
    \A p \in Procs : pc[p] \in ExternalCallPCs => ~HoldsStateMu(p)

\* A worker is inside a provider fetch for a repository while another process
\* holds State.Mu exclusively to write the map.
C8_Witness ==
    \E p \in Workers, q \in Procs :
        /\ pc[p] = "HandleLocalProviderPage_fetch"
        /\ local[p].repo # 0
        /\ StateMuW = q
        /\ pc[q] \in MapWritePCs

\* C9: when HandleDeleteRepository has made both removals and is about to
\* release State.Mu and answer, the registry has no repository under the path
\* and the scheduler has no task and no cron entry under it.
C9_DeleteRemovesBoth ==
    \A p \in Workers :
        pc[p] = "HandleDeleteRepository_unlock" =>
            /\ StateMuW = p
            /\ Repositories[local[p].path] = 0
            /\ tasks[local[p].path] = NoTask
            /\ EntriesOf(local[p].path) = {}

\* Entry ids cron has handed out or may hand out.
EntryIDs == 1..MaxEntryID

\* The timed loop starts an invocation of entry i's wrapped func.
Started(i) == inFlight'[i] > inFlight[i]

\* C11: an invocation is only started for an entry that the task map holds at
\* that moment, so none is started for a key once RemoveTask has removed it;
\* and the step of RemoveTask that removes the task leaves the key absent and
\* every invocation in flight as it is.
C11_RemoveStopsFutureFires ==
    [][/\ \A i \in EntryIDs :
             Started(i) => \E k \in Paths : tasks[k] # NoTask /\ tasks[k].ID = i
       /\ \A p \in Workers :
             (pc[p] = "RemoveTask_body" /\ pc'[p] = "RemoveTask_ret") =>
                 /\ tasks'[local[p].path] = NoTask
                 /\ inFlight' = inFlight]_vars

\* RemoveTask has removed a task of a running loop while an invocation of its
\* action is still in flight.
C11_Witness ==
    \E p \in Workers :
        /\ pc[p] = "RemoveTask_ret"
        /\ cronRunning
        /\ local[p].existingTask # NoTask
        /\ inFlight[local[p].existingTask.ID] > 0

\* C12: the goroutine that runs an action never holds the scheduler's lock,
\* and neither a dispatch nor the end of an action takes or releases it.
C12_NoActionUnderSchedMu ==
    /\ [](schedMu \notin Jobs)
    /\ [][\A j \in Jobs : pc'[j] # pc[j] => schedMu' = schedMu]_vars

\* AddTask has replaced a key's task and is returning while an invocation of
\* the replaced action of that key is still executing.
C12_Witness ==
    \E p \in Workers, j \in Jobs :
        /\ Returning(p) /\ ~local[p].err
        /\ local[p].existingTask # NoTask
        /\ pc[j] = "job_run"
        /\ local[j].path = local[p].path
        /\ local[j].action = local[p].existingTask.Action
        /\ local[j].action # local[p].action

\* C13: no failure inside a scheduled action ever ends the process, so the
\* dispatch loop keeps dispatching after it.
C13_ActionFailureContained == ~crashed

\* The running loop's timer fires and the loop serves its due entries.
TimerFires ==
    /\ cronRunning /\ cronRunning'
    /\ clock = timerAt /\ clock' = clock
    /\ pc' = pc
    /\ cronNext' # cronNext

\* C14: when the timer fires, every due entry gets one more invocation in
\* flight, whether or not earlier invocations of it are still running.
C14_OverlapNotSkipped ==
    [][TimerFires =>
          \A e \in DueEntries : inFlight'[e.ID] = inFlight[e.ID] + 1]_vars

\* Two invocations of one registered entry are in flight at once.
C14_Witness ==
    \E e \in cronEntries : cronRunning /\ inFlight[e.ID] >= 2

\* C15: a running loop never sleeps past the fire instant of a registered
\* entry: its timer is set no later than the Next of every entry, also right
\* after AddTask registered an entry that is due before the others; and when
\* the timer fires, every due entry is at its own fire instant, is started,
\* and has its Next recomputed from that instant.
C15_WakesAtEarliestFire ==
    /\ [](cronRunning =>
            \A e \in cronEntries :
                /\ cronNext[e.ID] = ZeroTime => ScheduleNext(e.Schedule, clock) = ZeroTime
                /\ cronNext[e.ID] # ZeroTime =>
                       (clock <= timerAt /\ timerAt <= cronNext[e.ID]))
    /\ [][TimerFires =>
            \A e \in DueEntries :
                /\ cronNext[e.ID] = clock
                /\ Started(e.ID)
                /\ cronNext'[e.ID] = ScheduleNext(e.Schedule, clock)]_vars

\* An entry registered after another has the earlier fire instant, and the
\* loop's timer is set for it.
C15_Witness ==
    \E e1, e2 \in cronEntries :
        /\ cronRunning
        /\ e1.ID < e2.ID
        /\ cronNext[e1.ID] # ZeroTime
        /\ cronNext[e2.ID] # ZeroTime
        /\ cronNext[e2.ID] < cronNext[e1.ID]
        /\ timerAt = cronNext[e2.ID]

\* C16: Stop can return whenever the loop runs, whatever is in flight; it
\* leaves the invocations in flight alone; and an invocation is only ever
\* started by a loop that is running.
C16_StopDoesNotWait ==
    /\ []((cronRunning /\ ~crashed) => ENABLED Stop)
    /\ [][(cronRunning /\ ~cronRunning') => inFlight' = inFlight]_vars
    /\ [][\A i \in EntryIDs : Started(i) => (cronRunning /\ cronRunning')]_vars

\* The loop has been stopped while an invocation is still in flight.
C16_Witness ==
    /\ ~cronRunning
    /\ \E i \in EntryIDs : inFlight[i] > 0

\* C17: UpdateTask hands its arguments unchanged to AddTask without touching
\* the scheduler, and a call that returns, entered through either of them,
\* has the outcome its arguments alone decide: an error exactly when the
\* schedule does not parse, the task registered with one cron entry when it
\* does, and the key absent when it does not.
C17_UpdateTaskIsAddTask ==
    /\ [][\A p \in Workers :
            (pc[p] = "UpdateTask" /\ pc'[p] # pc[p]) =>
                /\ pc'[p] = "AddTask"
                /\ local'[p] = local[p]
                /\ tasks' = tasks
                /\ cronEntries' = cronEntries
                /\ cronNextID' = cronNextID]_vars
    /\ [](\A p \in Workers :
            (Returning(p) /\ local[p].handler \in {"AddTask", "UpdateTask"}) =>
                /\ local[p].err = ~ParseStandard(local[p].schedule)
                /\ ~local[p].err => Registered(p)
                /\ local[p].err =>
                       (tasks[local[p].path] = NoTask /\ EntriesOf(local[p].path) = {}))

\* UpdateTask has replaced a task that carried another action
\* and is returning without an error.
C17_Witness ==
    \E p \in Workers :
        /\ Returning(p)
        /\ local[p].handler = "UpdateTask"
        /\ ~local[p].err
        /\ local[p].existingTask # NoTask
        /\ local[p].existingTask.Action # local[p].action
        /\ Registered(p)

\* C18: AddTask with the schedule "*/61 * * * *" returns an error and no
\* entry with that schedule exists.
C18_StepAboveDomainRejected ==
    /\ \A p \in Workers :
          (Returning(p) /\ local[p].schedule = StepSixtyOne) => local[p].err
    /\ \A e \in cronEntries : e.Schedule # StepSixtyOne

\* C19: AddTask with a six-field schedule, seconds first, returns no error
\* and leaves the task registered.
C19_SecondsFieldAccepted ==
    \A p \in Workers :
        (Returning(p) /\ local[p].schedule = SixFields) =>
            (~local[p].err /\ Registered(p))

\* C20: AddTask with a schedule that never fires, day 31 of February, returns
\* an error and no entry with that schedule exists.
C20_UnsatisfiableRejected ==
    /\ \A p \in Workers :
          (Returning(p) /\ local[p].schedule = FebThirtyFirst) => local[p].err
    /\ \A e \in cronEntries : e.Schedule # FebThirtyFirst

\* The loop computes the Next of entry e in this step: the entry is added to
\* a running loop, the loop starts, or the entry has just been dispatched.
NextComputed(e) ==
    /\ cronRunning'
    /\ \/ e \notin cronEntries
       \/ ~cronRunning
       \/ Started(e.ID)

\* C21: every next fire instant the loop computes for an entry, on its
\* registration, on the start of the loop and after each of its fires, lies
\* strictly after the instant at which it is computed.
C21_NextStrictlyAfter ==
    [][\A e \in cronEntries' : NextComputed(e) => cronNext'[e.ID] > clock']_vars


\* Where a handler stands once config.SaveConfig has returned.
SavedPCs == {"HandleAddRepository_respond", "HandleDeleteRepository_respond",
             "HandleSwitchProvider_respond"}

\* C22: the step of a handler in which config.SaveConfig runs undoes nothing:
\* after HandleAddRepository's AddTask and HandleDeleteRepository's removals
\* it leaves the registry and the scheduler as they are, and in
\* HandleSwitchProvider, where it follows the insert in the same step, the
\* registry holds the repository afterwards.  When the save has failed, the
\* handler's last step answers 500 and leaves the registry, the scheduler and
\* the repository objects as they are.
C22_SaveFailureKeepsMutation ==
    [][\A p \in Workers :
          /\ (pc[p] \notin SavedPCs /\ pc'[p] \in SavedPCs) =>
                /\ tasks' = tasks
                /\ cronEntries' = cronEntries
                /\ repoObjs' = repoObjs
                /\ Repositories' =
                      IF pc[p] = "HandleSwitchProvider_insert"
                        THEN [Repositories EXCEPT ![local[p].path] = local[p].repo]
                        ELSE Repositories
          /\ (pc[p] \in SavedPCs /\ local[p].err /\ pc'[p] # pc[p]) =>
                /\ local'[p].status = "500"
                /\ tasks' = tasks
                /\ cronEntries' = cronEntries
                /\ repoObjs' = repoObjs
                /\ Repositories' = Repositories]_vars

\* The save has failed in HandleAddRepository, which has yet to answer, and
\* the registry holds the new repository and the scheduler its task; another
\* handler has switched that repository's provider and its save failed too.
C22_Witness ==
    \E p, q \in Workers :
        /\ pc[p] = "HandleAddRepository_respond"
        /\ local[p].err
        /\ Repositories[local[p].path] = local[p].repo
        /\ tasks[local[p].path] # NoTask
        /\ tasks[local[p].path].Action = local[p].repo
        /\ pc[q] = "HandleSwitchProvider_respond"
        /\ local[q].err
        /\ local[q].repo = local[p].repo
        /\ repoObjs[local[q].repo].Provider = "github"

\* Where a handler is about to look its path up in the registry.
LookupPCs == {"getRepository_read", "HandleLocalProviderPage_read",
              "HandleGitHubIssues_read"}

\* C23: a handler whose lookup finds nothing under its path answers 404 in
\* that very step and is done: it goes through no provider call, takes no
\* repository's lock and leaves the registry, the repository objects and the
\* scheduler as they are.
C23_NotFoundDoesNothingElse ==
    [][\A p \in Workers :
          (pc[p] \in LookupPCs /\ Repositories[local[p].path] = 0 /\ pc'[p] # pc[p]) =>
              /\ pc'[p] = "done"
              /\ local'[p].status = "404"
              /\ Repositories' = Repositories
              /\ repoObjs' = repoObjs
              /\ tasks' = tasks
              /\ cronEntries' = cronEntries]_vars

\* A handler has answered 404 and holds no lock, while the scheduler holds a
\* task under a path the registry does not have.
C23_Witness ==
    \E p \in Workers :
        /\ pc[p] = "done"
        /\ local[p].status = "404"
        /\ ~HoldsStateMu(p)
        /\ ~HoldsRepoMu(p)
        /\ \E k \in Paths : tasks[k] # NoTask /\ Repositories[k] = 0

\* C24: a HandleDeleteRepository request for a path the registry does not
\* hold is not answered with an error, and leaves the registry and the
\* scheduler as they are.
C24_DeleteAbsentSucceeds ==
    [][\A p \in Workers :
          (/\ local[p].handler = "HandleDeleteRepository"
           /\ pc[p] = "getRepository_read"
           /\ Repositories[local[p].path] = 0
           /\ pc'[p] # pc[p]) =>
              /\ pc'[p] = "done" => local'[p].status = "200"
              /\ Repositories' = Repositories
              /\ tasks' = tasks
              /\ cronEntries' = cronEntries]_vars

\* Where a handler of local.go is inside its mutating operation of repo.Remote.
MutationCallPCs == {"HandleCreateLocalIssue_call", "HandleLocalMutation_call"}

\* C25: a handler inside a mutating provider operation holds the lock of the
\* repository it works on, so no two handlers are inside such operations on
\* the same repository at one time.
C25_MutationsSerializedPerRepo ==
    /\ \A p \in Workers :
          pc[p] \in MutationCallPCs => repoObjs[local[p].repo].Mu = p
    /\ \A p, q \in Workers :
          (p # q /\ pc[p] \in MutationCallPCs /\ pc[q] \in MutationCallPCs) =>
              local[p].repo # local[q].repo

\* Two handlers are inside mutating operations at once, one on each of two
\* repositories.
C25_Witness ==
    \E p, q \in Workers :
        /\ pc[p] = "HandleLocalMutation_call" /\ local[p].handler = "HandleDeleteLocalIssue"
        /\ pc[q] = "HandleCreateLocalIssue_call"
        /\ local[p].repo # local[q].repo
        /\ repoObjs[local[p].repo].Mu = p
        /\ repoObjs[local[q].repo].Mu = q

\* C26: a job running the sync action holds State.Mu neither shared nor
\* exclusively while it is in repo.Sync; from there its only step takes
\* State.Mu exclusively, whatever Sync returned; and its next step stores the
\* repository under repo.Path, still holding the lock, and releases it.
C26_SyncThenStoreUnderLock ==
    /\ [](\A j \in Jobs :
            /\ pc[j] = "job_run" => ~HoldsStateMu(j)
            /\ pc[j] = "job_insert" => (StateMuW = j /\ StateMuR = {}))
    /\ [][\A j \in Jobs :
            /\ (pc[j] = "job_run" /\ pc'[j] # pc[j]) =>
                  (pc'[j] = "job_insert" /\ Repositories' = Repositories)
            /\ (pc[j] = "job_insert" /\ pc'[j] # pc[j]) =>
                  /\ Repositories'[repoObjs[local[j].action].Path] = local[j].action
                  /\ StateMuW' = NoProc]_vars

\* A job is back from Sync and holds State.Mu to store its repository, which
\* the registry does not hold at that moment.
C26_Witness ==
    \E j \in Jobs :
        /\ pc[j] = "job_insert"
        /\ StateMuW = j
        /\ Repositories[repoObjs[local[j].action].Path] = 0

\* Where a handler is about to read State.Settings: HandleGetSettings,
\* HandleGitHubIssues (the token), HandleLocalProviderPage (the page data)
\* and HandleSwitchProvider (the token).
SettingsReadPCs == {"HandleGetSettings_encode", "HandleGitHubIssues_token",
                    "HandleLocalProviderPage_fetch", "HandleSwitchProvider_provider"}

\* C27: while handleSettingsChange is about to write State.Settings under the
\* exclusive lock, no handler is at a read of State.Settings.
C27_NoSettingsReadDuringWrite ==
    \A p, q \in Workers :
        ~(pc[p] = "handleSettingsChange_write" /\ pc[q] \in SettingsReadPCs)

\* C28: when HandleAddRepository is about to answer 201, the registry holds
\* the new repository under its path and the scheduler holds a task under
\* that path.
C28_CreatedMeansRegisteredAndScheduled ==
    \A p \in Workers :
        (pc[p] = "HandleAddRepository_respond" /\ ~local[p].err) =>
            /\ Repositories[local[p].path] = local[p].repo
            /\ tasks[local[p].path] # NoTask

\* HandleAddRepository is back from an AddTask that failed.
AddTaskFailed(p) ==
    /\ local[p].handler = "HandleAddRepository"
    /\ pc[p] = "AddTask_ret"
    /\ local[p].err

StateLockPCs  == {"updateRepo", "HandleDeleteRepository_lock",
                  "HandleSwitchProvider_lock", "job_run"}
StateRLockPCs == {"HandleGitHubIssues_rlock2"}
SchedLockPCs  == {"AddTask", "RemoveTask"}
RepoLockPCs   == {"HandleCreateLocalIssue_lock", "HandleLocalMutation_lock"}

LockPCs == StateLockPCs \cup StateRLockPCs \cup SchedLockPCs \cup RepoLockPCs

\* The processes holding the lock that p is waiting for.
BlockedBy(p) ==
    CASE pc[p] \in StateLockPCs  -> ({StateMuW} \cup StateMuR) \ {NoProc}
      [] pc[p] \in StateRLockPCs -> {StateMuW} \ {NoProc}
      [] pc[p] \in SchedLockPCs  -> {schedMu} \ {NoProc}
      [] pc[p] \in RepoLockPCs   -> {repoObjs[local[p].repo].Mu} \ {NoProc}
      [] OTHER                   -> {}

\* A set of processes each of which waits for a lock another member holds.
Deadlocked ==
    LET Waiting == {p \in Procs : pc[p] \in LockPCs /\ BlockedBy(p) # {}}
    IN  \E D \in (SUBSET Waiting) \ {{}} : \A p \in D : BlockedBy(p) \cap D # {}

\* The kinds of lock p holds.
Held(p) ==
    (IF HoldsStateMu(p) THEN {"State.Mu"} ELSE {})
    \cup (IF schedMu = p THEN {"s.mu"} ELSE {})
    \cup (IF HoldsRepoMu(p) THEN {"repo.Mu"} ELSE {})

\* C30: the three kinds of lock cannot deadlock. No set of processes waits
\* in a circle; a process that waits for a lock while holding another one, or
\* holds two kinds of lock, is HandleDeleteRepository with the scheduler's mu
\* inside the exclusive State.Mu; and a holder of the scheduler's mu never
\* waits for State.Mu or for a repository's Mu.
C30_LocksCannotDeadlock ==
    /\ ~Deadlocked
    /\ schedMu # NoProc =>
          /\ pc[schedMu] \notin LockPCs
          /\ Held(schedMu) # {"s.mu"} =>
                /\ Held(schedMu) = {"State.Mu", "s.mu"}
                /\ StateMuW = schedMu
                /\ local[schedMu].handler = "HandleDeleteRepository"
    /\ \A p \in Procs :
          (pc[p] \in LockPCs /\ BlockedBy(p) # {}) =>
              \/ Held(p) = {}
              \/ /\ Held(p) = {"State.Mu"}
                 /\ StateMuW = p
                 /\ pc[p] = "RemoveTask"
                 /\ local[p].handler = "HandleDeleteRepository"
    /\ \A r \in RepoIds :
          repoObjs[r].Mu # NoProc => Held(repoObjs[r].Mu) = {"repo.Mu"}

\* HandleDeleteRepository holds State.Mu exclusively and waits in RemoveTask
\* for the scheduler's mu, which another request holds inside AddTask.
C30_Witness ==
    \E p, q \in Workers :
        /\ p # q
        /\ local[p].handler = "HandleDeleteRepository"
        /\ pc[p] = "RemoveTask"
        /\ StateMuW = p
        /\ schedMu = q
        /\ BlockedBy(p) = {q}
        /\ BlockedBy(q) = {}

\* ---------------------------------------------------------------------------
\* handleSettingsChange: write under the lock, update and save outside it.

\* Positions of handleSettingsChange after its Unlock: the calls of
\* UpdateAgents, UpdateWorkflows and SaveConfig.
SettingsCallPCs == {"handleSettingsChange_update", "handleSettingsChange_workflows",
                    "handleSettingsChange_save"}

\* C31: handleSettingsChange replaces State.Settings while it holds State.Mu
\* exclusively and has released it before UpdateAgents, UpdateWorkflows and
\* SaveConfig; when UpdateAgents or UpdateWorkflows fails the error is
\* answered, SaveConfig is not reached, and the settings written stay as
\* they are.
C31_SettingsChangeOrder ==
    /\ [](\A p \in Workers :
            /\ pc[p] = "handleSettingsChange_write" => StateMuW = p
            /\ pc[p] \in SettingsCallPCs => ~HoldsStateMu(p))
    /\ [][\A p \in Workers :
            /\ (pc[p] = "handleSettingsChange_write" /\ pc'[p] # pc[p]) =>
                  /\ Settings' = local[p].newSettings
                  /\ StateMuW' = NoProc
                  /\ pc'[p] = "handleSettingsChange_update"
            /\ (pc[p] \in SettingsCallPCs /\ pc'[p] # pc[p]) =>
                  /\ Settings' = Settings
                  /\ UNCHANGED <<StateMuW, StateMuR>>
            /\ (pc[p] \in {"handleSettingsChange_update", "handleSettingsChange_workflows"}
                    /\ pc'[p] = "done") =>
                  local'[p].status = "500"
            /\ (pc'[p] = "handleSettingsChange_save" /\ pc[p] # pc'[p]) =>
                  pc[p] = "handleSettingsChange_workflows"
            /\ (pc'[p] = "handleSettingsChange_workflows" /\ pc[p] # pc'[p]) =>
                  pc[p] = "handleSettingsChange_update"]_vars

\* The new settings are in place and State.Mu is free while the request is
\* about to call UpdateAgents, which may fail.
C31_Witness ==
    \E p \in Workers :
        /\ pc[p] = "handleSettingsChange_update"
        /\ local[p].newSettings = NoToken
        /\ Settings = NoToken
        /\ StateMuW = NoProc
        /\ StateMuR = {}

\* ---------------------------------------------------------------------------
\* HandleAddLocalComment: 201 Created and the provider call behind it.

\* C32: HandleAddLocalComment answers 201 Created only after one call, and
\* only one, of the provider operation that matches the request's
\* resourceType, and that call succeeded.
C32_CreatedAfterOneMatchingCall ==
    \A p \in Workers :
        (pc[p] = "HandleAddLocalComment_respond" /\ ~local[p].err) =>
            /\ Len(local[p].calls) = 1
            /\ local[p].calls[1] = CommentOperation(local[p].resourceType)
            /\ local[p].calls[1] # "none"

\* ---------------------------------------------------------------------------
\* HandleLogs: which lines of the log file reach a conversation.

\* Line i of the file parses as JSON, has a conversation ID and passes the
\* request's level and search filters.
Qualifies(L, i) ==
    /\ L.file[i].kind = "json"
    /\ L.file[i].id # ""
    /\ PassesFilters(ParseEntry(L.file[i]), L.level, L.search)

\* C33: when HandleLogs has finished reading, every line of the file that
\* parses as JSON, has a non-empty conversation ID and passes the level and
\* search filters is a message of its conversation, whatever lines that do
\* not parse or are empty come before it.
C33_EveryQualifyingLineGrouped ==
    \A p \in Workers :
        pc[p] = "HandleLogs_sort" =>
            \A i \in 1..Len(local[p].logs.file) :
                Qualifies(local[p].logs, i) =>
                    \E k \in 1..Len(local[p].logs.conversations[local[p].logs.file[i].id].Messages) :
                        local[p].logs.conversations[local[p].logs.file[i].id].Messages[k]
                            = ParseEntry(local[p].logs.file[i])
====
